---------------------------- MODULE Spec2Model ----------------------------
(***************************************************************************)
(* State-machine model of the RoutineGamification progression engine:      *)
(* Skill (levelling, prestige), User (streak, stats, XP awards),           *)
(* RoutineSession, RoutineManager and the StorageManager session store.    *)
(*                                                                         *)
(* Numbers.  XP amounts, levels and counters are integers.  A streak bonus *)
(* and the prestige multiplier are fractions with two decimals in the      *)
(* source (0.05, 0.10, ...); the model carries them as integer percents    *)
(* (5, 10, ...) and evaluates                                              *)
(*      Math.floor(xp * ((1 + prestige * 0.05) * (1 + streakBonus)))       *)
(* as floor(xp * (100 + 5*prestige) * (100 + bonusPct) / 10000).  The      *)
(* source evaluates the product in IEEE-754 doubles; on every input the    *)
(* model draws (RawXPs x PrestigeLevels x BonusPercents) the double result *)
(* equals this exact value.  (On other inputs, e.g. xp = 100 with bonus    *)
(* 0.15, the double product is 114.99999999999999 and the source gains     *)
(* 114.)                                                                   *)
(*                                                                         *)
(* Time.  `now' is the wall clock in ticks, TicksPerDay ticks to a         *)
(* calendar day; Date.toDateString() of a timestamp is its day number.     *)
(***************************************************************************)
EXTENDS Integers, Sequences, FiniteSets, TLC

VARIABLES
    skill,      \* a Skill object exercised directly (Skill unit level)
    calls,      \* number of addXP calls made on `skill'
    user,       \* the User object (skills, streak, stats, lastActive)
    sessions,   \* RoutineManager.sessions: session key -> reference
    objects,    \* the RoutineSession objects: reference -> fields
    store,      \* localStorage['rutina_sessions']: key -> session JSON
    savedUser,  \* localStorage['rutina_user_data']: user JSON, or NoUser
    now,        \* wall clock
    achievements, \* AchievementManager.achievements: id -> unlockedAt
    ret         \* the last call: operation, arguments, outcome

vars == <<skill, calls, user, sessions, objects, store, savedUser, now,
         achievements, ret>>

\* JavaScript null / undefined / an absent JSON field.
NULL == -1

-----------------------------------------------------------------------------
(* Bounds of the model *)

\* addXP calls made directly on the Skill under test.
MaxCalls == 3

\* Raw XP amounts handed to Skill.addXP; 4000000 exceeds the 3950079 XP
\* that levels 1..99 require together, so one award reaches level 100.
RawXPs == {0, 150, 1000, 4000000}

\* Streak bonus arguments, in percent (the values of the bonus table).
BonusPercents == {0, 10, 30}

\* Prestige counts a persisted skill snapshot may carry.
PrestigeLevels == {0, 1, 2}

-----------------------------------------------------------------------------
(* Skill *)

\* new Skill(name, icon, type)
NewSkill == [level |-> 1, currentXP |-> 0, totalXP |-> 0, prestige |-> 0]

\* floor(sqrt(n)) for 0 <= n < 1002001.
FloorSqrt(n) == CHOOSE r \in 0..1000 : r * r <= n /\ (r + 1) * (r + 1) > n

\* Math.floor(100 * Math.pow(level, 1.5)) = floor(sqrt(10^4 * level^3)):
\* with h = floor(sqrt(level^3)) the result is 100*h + k for the largest
\* k in 0..99 with (100*h + k)^2 <= 10^4 * level^3 (kept below 2^31).
Pow15Times100(level) ==
    LET cube == level * level * level
        h    == FloorSqrt(cube)
        d    == cube - h * h
        k    == CHOOSE j \in 0..99 :
                    /\ 200 * h * j + j * j <= 10000 * d
                    /\ \/ j = 99
                       \/ 200 * h * (j + 1) + (j + 1) * (j + 1) > 10000 * d
    IN  100 * h + k

\* The requirement of every level below the maximum, computed once.
XPTable == [l \in 1..99 |-> Pow15Times100(l)]

\* Skill.getXPForNextLevel
XPForNextLevel(level) == IF level >= 100 THEN 0 ELSE XPTable[level]

\* Skill.getPrestigeMultiplier, in percent: 1 + prestige * 0.05
PrestigeMultiplier(prestige) == 100 + prestige * 5

\* Mutant: the streak bonus is added to the prestige multiplier instead of
\* multiplying it.
AdjustedXP_Additive(xp, prestige, bonusPct) ==
    LET m == (PrestigeMultiplier(prestige) + bonusPct) * 100
    IN  (xp \div 10000) * m + ((xp % 10000) * m) \div 10000

\* Math.floor(xp * (prestigeMultiplier * (1 + streakBonus)))
AdjustedXP(xp, prestige, bonusPct) ==
    LET m == PrestigeMultiplier(prestige) * (100 + bonusPct)
    IN  (xp \div 10000) * m + ((xp % 10000) * m) \div 10000

\* Mutant: `if' in place of `while', at most one level-up per award.
LevelUp_Once(s) ==
    IF s.currentXP >= XPForNextLevel(s.level) /\ s.level < 100
        THEN [s EXCEPT !.currentXP = @ - XPForNextLevel(s.level),
                       !.level = @ + 1]
        ELSE s

\* Mutant: a level-up does not consume the XP it required.
RECURSIVE LevelUp_KeepsXP(_)
LevelUp_KeepsXP(s) ==
    IF s.currentXP >= XPForNextLevel(s.level) /\ s.level < 100
        THEN LevelUp_KeepsXP([s EXCEPT !.level = @ + 1])
        ELSE s

\* Mutant: a level-up takes the requirement off totalXP as well.
RECURSIVE LevelUp_DrainsTotal(_)
LevelUp_DrainsTotal(s) ==
    IF s.currentXP >= XPForNextLevel(s.level) /\ s.level < 100
        THEN LevelUp_DrainsTotal(
                 [s EXCEPT !.currentXP = @ - XPForNextLevel(s.level),
                           !.totalXP = @ - XPForNextLevel(s.level),
                           !.level = @ + 1])
        ELSE s

\* The level-up loop of Skill.addXP.
RECURSIVE LevelUp(_)
LevelUp(s) ==
    IF s.currentXP >= XPForNextLevel(s.level) /\ s.level < 100
        THEN LevelUp([s EXCEPT !.currentXP = @ - XPForNextLevel(s.level),
                               !.level = @ + 1])
        ELSE s

\* Skill.addXP(xp, streakBonus): the skill afterwards and the returned record.
AddXP(s, xp, bonusPct) ==
    LET adjustedXP == AdjustedXP(xp, s.prestige, bonusPct)
        credited   == [s EXCEPT !.currentXP = @ + adjustedXP,
                                !.totalXP = @ + adjustedXP]
        after      == LevelUp(credited)
    IN  [skill     |-> after,
         leveledUp |-> after.level # s.level,
         newLevel  |-> after.level,
         xpGained  |-> adjustedXP]

\* The body of the method Skill.prototype.prestige.
PrestigeMethod(s) ==
    IF s.level < 100
        THEN [skill |-> s, error |-> "Must be level 100 to prestige",
              prestigeLevel |-> NULL, multiplier |-> NULL]
        ELSE LET after == [s EXCEPT !.level = 1, !.currentXP = 0,
                                    !.prestige = @ + 1]
             IN  [skill |-> after, error |-> "none",
                  prestigeLevel |-> after.prestige,
                  multiplier |-> PrestigeMultiplier(after.prestige)]

\* What the property access `skill.prestige' yields.  The constructor (and
\* fromJSON) assign this.prestige = <number>, an own data property of the
\* instance, which shadows the method of the same name on the prototype.
PrestigeProperty(s) ==
    IF "prestige" \in DOMAIN s THEN "own number" ELSE "prototype method"

\* The call expression skill.prestige(): calling a number throws TypeError
\* before any statement of the method runs.
CallPrestige(s) ==
    IF PrestigeProperty(s) = "prototype method"
        THEN PrestigeMethod(s)
        ELSE [skill |-> s, error |-> "TypeError: skill.prestige is not a function",
              prestigeLevel |-> NULL, multiplier |-> NULL]

\* x || dflt for a numeric field: null, undefined and 0 are falsy.
OrDefault(x, dflt) == IF x = NULL \/ x = 0 THEN dflt ELSE x

\* Skill.fromJSON(data)
SkillFromJSON(data) ==
    [level     |-> OrDefault(data.level, 1),
     currentXP |-> OrDefault(data.currentXP, 0),
     totalXP   |-> OrDefault(data.totalXP, 0),
     prestige  |-> OrDefault(data.prestige, 0)]

\* Persisted snapshots of a skill at the start of a prestige cycle.
SkillSnapshots ==
    [level : {NULL, 1}, currentXP : {NULL, 0}, totalXP : {NULL, 0},
     prestige : {NULL} \cup PrestigeLevels]

-----------------------------------------------------------------------------
(* Time *)

\* The clock instants of a calendar day.
DayInstants == <<"morning", "evening">>

\* Clock ticks per calendar day.
TicksPerDay == Len(DayInstants)

\* Last calendar day the clock of the user-level specification reaches
\* (days are numbered from 0).
MaxDay == 6

\* new Date(t).toDateString(): the calendar day of a timestamp.
Day(t) == t \div TicksPerDay

-----------------------------------------------------------------------------
(* User *)

\* The keys of User.skills.
Categories ==
    {"physical", "mental", "discipline", "productivity", "logic", "coding"}

\* new User(username) at time t
NewUser(t) ==
    [username   |-> "Hunter",
     createdAt  |-> t,
     lastActive |-> t,
     skills     |-> [c \in Categories |-> NewSkill],
     streak     |-> [current |-> 0, longest |-> 0, lastCompleted |-> NULL],
     stats      |-> [totalRoutinesCompleted |-> 0,
                     totalTasksCompleted    |-> 0,
                     totalXPEarned          |-> 0,
                     achievements           |-> << >>]]

\* User.STREAK_BONUSES, the bonus in percent.
STREAK_BONUSES ==
    << [days |-> 5,   bonus |-> 5],
       [days |-> 7,   bonus |-> 10],
       [days |-> 15,  bonus |-> 15],
       [days |-> 25,  bonus |-> 20],
       [days |-> 50,  bonus |-> 30],
       [days |-> 100, bonus |-> 50] >>

\* The loop of User.getStreakBonus from tier i on, `bonus' so far.
RECURSIVE StreakBonusFrom(_, _, _)
StreakBonusFrom(i, bonus, current) ==
    IF i > Len(STREAK_BONUSES) THEN bonus
    ELSE StreakBonusFrom(i + 1,
                         IF current >= STREAK_BONUSES[i].days
                             THEN STREAK_BONUSES[i].bonus
                             ELSE bonus,
                         current)

\* Mutant: the loop stops at the first tier the streak satisfies.
GetStreakBonus_FirstMatch(current) ==
    LET hits == {i \in 1..Len(STREAK_BONUSES) : current >= STREAK_BONUSES[i].days}
    IN  IF hits = {} THEN 0
        ELSE STREAK_BONUSES[CHOOSE i \in hits : \A j \in hits : i <= j].bonus

\* User.getStreakBonus for streak.current = current
GetStreakBonus(current) == StreakBonusFrom(1, 0, current)

\* Mutant: a second completion on the same day increments the streak too.
UpdateStreak_SameDayIncrements(streak, t) ==
    LET lastCompleted == IF streak.lastCompleted # NULL
                             THEN Day(streak.lastCompleted) ELSE NULL
        current       == IF lastCompleted = NULL THEN 1
                         ELSE IF lastCompleted = Day(t) - 1 \/ lastCompleted = Day(t)
                             THEN streak.current + 1
                         ELSE 1
    IN  [current       |-> current,
         longest       |-> IF current > streak.longest
                               THEN current ELSE streak.longest,
         lastCompleted |-> t]

\* Mutant: longest is assigned the current streak unconditionally.
UpdateStreak_LongestFollows(streak, t) ==
    LET lastCompleted == IF streak.lastCompleted # NULL
                             THEN Day(streak.lastCompleted) ELSE NULL
        current       == IF lastCompleted = NULL THEN 1
                         ELSE IF lastCompleted # Day(t)
                             THEN IF lastCompleted = Day(t) - 1
                                      THEN streak.current + 1
                                      ELSE 1
                         ELSE streak.current
    IN  [current |-> current, longest |-> current, lastCompleted |-> t]

\* User.updateStreak at time t: the streak record afterwards.
UpdateStreak(streak, t) ==
    LET today         == Day(t)
        lastCompleted == IF streak.lastCompleted # NULL
                             THEN Day(streak.lastCompleted) ELSE NULL
        yesterdayStr  == Day(t) - 1
        current       == IF lastCompleted = NULL THEN 1
                         ELSE IF lastCompleted # today
                             THEN IF lastCompleted = yesterdayStr
                                      THEN streak.current + 1
                                      ELSE 1
                         ELSE streak.current
    IN  [current       |-> current,
         longest       |-> IF current > streak.longest
                               THEN current ELSE streak.longest,
         lastCompleted |-> t]

\* Mutant: lastActive is stamped before the category is looked up.
AddSkillXP_StampsFirst(u, skillType, xp, t) ==
    LET stamped == [u EXCEPT !.lastActive = t]
    IN  IF skillType \notin DOMAIN u.skills
            THEN [user |-> stamped, found |-> FALSE]
            ELSE LET streakBonus == GetStreakBonus(u.streak.current)
                     result      == AddXP(u.skills[skillType], xp, streakBonus)
                 IN  [user  |-> [stamped EXCEPT
                                    !.skills[skillType] = result.skill,
                                    !.stats.totalXPEarned = @ + result.xpGained],
                      found |-> TRUE,
                      skill |-> skillType,
                      leveledUp |-> result.leveledUp,
                      newLevel  |-> result.newLevel,
                      xpGained  |-> result.xpGained,
                      streakBonus |-> streakBonus]

\* Mutant: totalXPEarned counts the raw reward instead of the XP gained.
AddSkillXP_CountsRaw(u, skillType, xp, t) ==
    IF skillType \notin DOMAIN u.skills
        THEN [user |-> u, found |-> FALSE]
        ELSE LET streakBonus == GetStreakBonus(u.streak.current)
                 result      == AddXP(u.skills[skillType], xp, streakBonus)
             IN  [user  |-> [u EXCEPT !.skills[skillType] = result.skill,
                                      !.stats.totalXPEarned = @ + xp,
                                      !.lastActive = t],
                  found |-> TRUE,
                  skill |-> skillType,
                  leveledUp |-> result.leveledUp,
                  newLevel  |-> result.newLevel,
                  xpGained  |-> result.xpGained,
                  streakBonus |-> streakBonus]

\* User.addSkillXP(skillType, xp) at time t: the user afterwards and the
\* returned record (found = FALSE stands for the null result).
AddSkillXP(u, skillType, xp, t) ==
    IF skillType \notin DOMAIN u.skills
        THEN [user |-> u, found |-> FALSE]
        ELSE LET streakBonus == GetStreakBonus(u.streak.current)
                 result      == AddXP(u.skills[skillType], xp, streakBonus)
             IN  [user  |-> [u EXCEPT !.skills[skillType] = result.skill,
                                      !.stats.totalXPEarned = @ + result.xpGained,
                                      !.lastActive = t],
                  found |-> TRUE,
                  skill |-> skillType,
                  leveledUp |-> result.leveledUp,
                  newLevel  |-> result.newLevel,
                  xpGained  |-> result.xpGained,
                  streakBonus |-> streakBonus]

\* Mutant: the loop ends at the first reward that levels its skill up.
RECURSIVE AddRoutineRewards_StopsAtLevelUp(_, _, _)
AddRoutineRewards_StopsAtLevelUp(u, skillRewards, t) ==
    IF skillRewards = << >> THEN [user |-> u, results |-> << >>]
    ELSE LET entry  == Head(skillRewards)
             result == AddSkillXP(u, entry[1], entry[2], t)
             rest   == IF result.found /\ result.leveledUp
                           THEN [user |-> result.user, results |-> << >>]
                           ELSE AddRoutineRewards_StopsAtLevelUp(
                                    result.user, Tail(skillRewards), t)
         IN  [user    |-> rest.user,
              results |-> IF result.found
                              THEN <<[skill |-> result.skill,
                                      leveledUp |-> result.leveledUp,
                                      newLevel |-> result.newLevel,
                                      xpGained |-> result.xpGained,
                                      streakBonus |-> result.streakBonus]>>
                                   \o rest.results
                              ELSE rest.results]

\* User.addRoutineRewards(skillRewards): skillRewards is the sequence of
\* <<skillType, xp>> entries of the object, in Object.entries order.
RECURSIVE AddRoutineRewards(_, _, _)
AddRoutineRewards(u, skillRewards, t) ==
    IF skillRewards = << >> THEN [user |-> u, results |-> << >>]
    ELSE LET entry  == Head(skillRewards)
             result == AddSkillXP(u, entry[1], entry[2], t)
             rest   == AddRoutineRewards(result.user, Tail(skillRewards), t)
         IN  [user    |-> rest.user,
              results |-> IF result.found
                              THEN <<[skill |-> result.skill,
                                      leveledUp |-> result.leveledUp,
                                      newLevel |-> result.newLevel,
                                      xpGained |-> result.xpGained,
                                      streakBonus |-> result.streakBonus]>>
                                   \o rest.results
                              ELSE rest.results]

\* User.completeTask
CompleteTask(u, t) ==
    [u EXCEPT !.stats.totalTasksCompleted = @ + 1, !.lastActive = t]

\* User.completeRoutine
CompleteRoutine(u, t) ==
    [u EXCEPT !.stats.totalRoutinesCompleted = @ + 1,
              !.streak = UpdateStreak(@, t),
              !.lastActive = t]

\* User.toJSON, as stored by JSON.stringify
UserToJSON(u) ==
    [username   |-> u.username,
     createdAt  |-> u.createdAt,
     lastActive |-> u.lastActive,
     skills     |-> [c \in DOMAIN u.skills |->
                        [level     |-> u.skills[c].level,
                         currentXP |-> u.skills[c].currentXP,
                         totalXP   |-> u.skills[c].totalXP,
                         prestige  |-> u.skills[c].prestige]],
     streak     |-> u.streak,
     stats      |-> u.stats]

-----------------------------------------------------------------------------
(* Routine definitions (read-only reference data) *)

\* The loaded routines.  An item's skillRewards object is the sequence of
\* its <<skillType, xp>> entries; an item without skillRewards has none
\* (`if (skillRewards)' and `skillRewards || {}' treat both alike).
Routines ==
    [morning |->
        [id |-> "morning",
         sections |->
            << [id |-> "wake",
                items |-> << [id |-> "m1",
                              skillRewards |-> << <<"physical", 150>> >>],
                             [id |-> "m2",
                              skillRewards |-> << <<"mental", 1000>>,
                                                  <<"physical", 0>> >>] >>],
               [id |-> "plan",
                items |-> << [id |-> "m3", skillRewards |-> << >>] >>] >>],
     evening |->
        [id |-> "evening",
         sections |->
            << [id |-> "wind-down",
                items |-> << [id |-> "e1",
                              skillRewards |-> << <<"discipline", 150>>,
                                                  <<"focus", 10>> >>] >>] >>]]

RoutineIds == DOMAIN Routines

\* Routine.getAllItems: the items of all sections, flattened in order.
RECURSIVE FlattenFrom(_, _)
FlattenFrom(sections, i) ==
    IF i > Len(sections) THEN << >>
    ELSE sections[i].items \o FlattenFrom(sections, i + 1)

\* Mutant: only the items of the first section are collected.
GetAllItems_FirstSection(routine) ==
    IF routine.sections = << >> THEN << >> ELSE routine.sections[1].items

GetAllItems(routine) == FlattenFrom(routine.sections, 1)

\* Routine.getTotalItemCount
GetTotalItemCount(routine) == Len(GetAllItems(routine))

\* Routine.getItem(itemId): the first item with that id, section by section;
\* found = FALSE stands for null.
GetItem(routine, itemId) ==
    LET items == GetAllItems(routine)
        hits  == {i \in 1..Len(items) : items[i].id = itemId}
    IN  IF hits = {}
            THEN [found |-> FALSE, id |-> itemId, skillRewards |-> << >>]
            ELSE LET first == CHOOSE i \in hits : \A j \in hits : i <= j
                 IN  [found |-> TRUE, id |-> items[first].id,
                      skillRewards |-> items[first].skillRewards]

-----------------------------------------------------------------------------
(* RoutineSession.  completedItems is the Set in insertion order; xpEarned  *)
(* is the object as a function from its keys.                              *)

\* new RoutineSession(routine, date) at time t
NewSession(routineId, date, t) ==
    [routineId      |-> routineId,
     date           |-> IF date # NULL THEN date ELSE t,
     startedAt      |-> NULL,
     completedAt    |-> NULL,
     status         |-> "not_started",
     completedItems |-> << >>,
     xpEarned       |-> << >>]

\* Set.has
Has(items, itemId) == \E i \in 1..Len(items) : items[i] = itemId

\* Set.delete
Delete(items, itemId) == SelectSeq(items, LAMBDA x : x # itemId)

\* RoutineSession.start
Start(s, t) ==
    IF s.status = "not_started"
        THEN [s EXCEPT !.startedAt = t, !.status = "in_progress"]
        ELSE s

\* this.xpEarned[skill] || 0
Earned(xpEarned, skillType) ==
    IF skillType \in DOMAIN xpEarned THEN xpEarned[skillType] ELSE 0

\* this.xpEarned[skill] = value
SetEarned(xpEarned, skillType, value) ==
    [k \in DOMAIN xpEarned \cup {skillType} |->
        IF k = skillType THEN value ELSE xpEarned[k]]

\* delete this.xpEarned[skill]
DeleteEarned(xpEarned, skillType) ==
    [k \in DOMAIN xpEarned \ {skillType} |-> xpEarned[k]]

\* Mutant: a reward replaces the XP tracked for its skill.
RECURSIVE TrackXP_Overwrites(_, _)
TrackXP_Overwrites(xpEarned, skillRewards) ==
    IF skillRewards = << >> THEN xpEarned
    ELSE LET entry == Head(skillRewards)
         IN  TrackXP_Overwrites(SetEarned(xpEarned, entry[1], entry[2]),
                                Tail(skillRewards))

\* The reward loop of RoutineSession.completeItem.
RECURSIVE TrackXP(_, _)
TrackXP(xpEarned, skillRewards) ==
    IF skillRewards = << >> THEN xpEarned
    ELSE LET entry == Head(skillRewards)
         IN  TrackXP(SetEarned(xpEarned, entry[1],
                               Earned(xpEarned, entry[1]) + entry[2]),
                     Tail(skillRewards))

\* The reward loop of RoutineSession.uncompleteItem.
RECURSIVE SubtractXP(_, _)
SubtractXP(xpEarned, skillRewards) ==
    IF skillRewards = << >> THEN xpEarned
    ELSE LET entry == Head(skillRewards)
             value == Earned(xpEarned, entry[1]) - entry[2]
         IN  SubtractXP(IF value <= 0
                            THEN DeleteEarned(xpEarned, entry[1])
                            ELSE SetEarned(xpEarned, entry[1], value),
                        Tail(skillRewards))

\* Mutant: the membership test is dropped, the item is recorded on every call.
SessionCompleteItem_Unguarded(s, itemId, skillRewards, t) ==
    Start([s EXCEPT !.completedItems = IF Has(@, itemId) THEN @
                                        ELSE Append(@, itemId),
                    !.xpEarned = TrackXP(@, skillRewards)],
          t)

\* RoutineSession.completeItem(itemId, skillRewards) at time t
SessionCompleteItem(s, itemId, skillRewards, t) ==
    IF Has(s.completedItems, itemId) THEN s
    ELSE Start([s EXCEPT !.completedItems = Append(@, itemId),
                         !.xpEarned = TrackXP(@, skillRewards)],
               t)

\* Mutant: a session emptied by uncompleteItem falls back to not_started.
SessionUncompleteItem_Reverts(s, itemId, skillRewards) ==
    IF Has(s.completedItems, itemId)
        THEN [s EXCEPT !.completedItems = Delete(@, itemId),
                       !.xpEarned = SubtractXP(@, skillRewards),
                       !.status = IF Delete(s.completedItems, itemId) = << >>
                                      THEN "not_started" ELSE @]
        ELSE s

\* RoutineSession.uncompleteItem(itemId, skillRewards)
SessionUncompleteItem(s, itemId, skillRewards) ==
    IF Has(s.completedItems, itemId)
        THEN [s EXCEPT !.completedItems = Delete(@, itemId),
                       !.xpEarned = SubtractXP(@, skillRewards)]
        ELSE s

\* RoutineSession.isComplete(routine)
IsComplete(s, routine) == Len(s.completedItems) = GetTotalItemCount(routine)

\* Mutant: complete changes the status without stamping completedAt.
Complete_Unstamped(s, t) ==
    IF s.status # "completed" THEN [s EXCEPT !.status = "completed"] ELSE s

\* RoutineSession.complete at time t
Complete(s, t) ==
    IF s.status # "completed"
        THEN [s EXCEPT !.completedAt = t, !.status = "completed"]
        ELSE s

\* Mutant: reset keeps the XP the session has tracked.
Reset_KeepsEarned(s) ==
    [s EXCEPT !.startedAt = NULL, !.completedAt = NULL,
              !.status = "not_started", !.completedItems = << >>]

\* RoutineSession.reset
Reset(s) ==
    [s EXCEPT !.startedAt = NULL, !.completedAt = NULL,
              !.status = "not_started", !.completedItems = << >>,
              !.xpEarned = << >>]

\* Mutant: completedAt is left out of the snapshot.
SessionToJSON_OmitsCompletedAt(s) ==
    [routineId      |-> s.routineId,
     date           |-> s.date,
     startedAt      |-> s.startedAt,
     status         |-> s.status,
     completedItems |-> s.completedItems,
     xpEarned       |-> s.xpEarned]

\* RoutineSession.toJSON, as stored by JSON.stringify
SessionToJSON(s) ==
    [routineId      |-> s.routineId,
     date           |-> s.date,
     startedAt      |-> s.startedAt,
     completedAt    |-> s.completedAt,
     status         |-> s.status,
     completedItems |-> s.completedItems,
     xpEarned       |-> s.xpEarned]

\* new Set(array): the elements in order of first occurrence.
RECURSIVE ToSet(_)
ToSet(array) ==
    IF array = << >> THEN << >>
    ELSE LET init == ToSet(SubSeq(array, 1, Len(array) - 1))
             last == array[Len(array)]
         IN  IF Has(init, last) THEN init ELSE Append(init, last)

\* RoutineSession.fromJSON(data, routine) at time t: a field the snapshot
\* lacks is absent from the record `data'.
SessionFromJSON(data, routine, t) ==
    LET fresh == NewSession(routine.id,
                            IF "date" \in DOMAIN data THEN data.date ELSE NULL,
                            t)
    IN  [fresh EXCEPT
            !.startedAt = IF "startedAt" \in DOMAIN data
                              THEN data.startedAt ELSE NULL,
            !.completedAt = IF "completedAt" \in DOMAIN data
                                THEN data.completedAt ELSE NULL,
            !.status = IF "status" \in DOMAIN data
                           THEN data.status ELSE "not_started",
            !.completedItems = IF "completedItems" \in DOMAIN data
                                   THEN ToSet(data.completedItems) ELSE << >>,
            !.xpEarned = IF "xpEarned" \in DOMAIN data
                             THEN data.xpEarned ELSE << >>]

-----------------------------------------------------------------------------
(* StorageManager (LocalStorage) and RoutineManager.  A session key        *)
(* `${routineId}_${dateStr}' is the pair <<routineId, day>>.  A            *)
(* RoutineSession object is referred to by the key under which             *)
(* getSession created it: a key is created at most once, since the map     *)
(* never drops an entry.  The manager state m is the record of             *)
(* sessions (the Map), objects (the heap) and store (LocalStorage).        *)

NoUser == [absent |-> TRUE]

\* StorageManager.loadAllSessionsLocal: when getItem or JSON.parse throws
\* (readable is FALSE) the error is caught and {} is returned.
LoadAllSessionsLocal(st, readable) == IF readable THEN st ELSE << >>

\* The manager as its calls read LocalStorage during one operation.
FailingStorage(m, readable) ==
    [m EXCEPT !.store = LoadAllSessionsLocal(@, readable)]

\* LocalStorage after an operation that read `before' and would write
\* `after': setItem throwing (ok is FALSE) leaves it as it was.
Written(before, after, ok) == IF ok THEN after ELSE before

\* StorageManager.saveSessionLocal(routineId, session) at time t; setItem
\* throws when ok is FALSE (quota exceeded), caught and reported as false.
SaveSessionLocal(st, routineId, session, t, ok) ==
    IF ok
        THEN LET key == <<routineId, Day(t)>>
             IN  [k \in DOMAIN st \cup {key} |->
                    IF k = key THEN SessionToJSON(session) ELSE st[k]]
        ELSE st

\* StorageManager.loadSessionLocal(routineId, date) at time t: the key read.
LoadKey(routineId, date, t) ==
    <<routineId, IF date # NULL THEN Day(date) ELSE Day(t)>>

\* RoutineManager.getSession(routineId, date) at time t: the manager state
\* afterwards and the reference of the session returned.
GetSession(m, routineId, date, t) ==
    LET sessionKey == <<routineId, IF date # NULL THEN Day(date) ELSE Day(t)>>
        loadKey    == LoadKey(routineId, date, t)
    IN  IF sessionKey \in DOMAIN m.sessions
            THEN [m |-> m, ref |-> m.sessions[sessionKey]]
        ELSE LET session ==
                    IF loadKey \in DOMAIN m.store
                        THEN SessionFromJSON(m.store[loadKey],
                                             Routines[routineId], t)
                        ELSE NewSession(routineId, date, t)
             IN  [m |-> [m EXCEPT
                          !.sessions = [k \in DOMAIN @ \cup {sessionKey} |->
                                          IF k = sessionKey THEN sessionKey
                                          ELSE @[k]],
                          !.objects = [r \in DOMAIN @ \cup {sessionKey} |->
                                          IF r = sessionKey THEN session
                                          ELSE @[r]]],
                  ref |-> sessionKey]

\* RoutineManager.saveSession(routineId, session) at time t
SaveSession(m, routineId, ref, t, ok) ==
    LET sessionKey == <<routineId, Day(m.objects[ref].date)>>
    IN  [m EXCEPT
            !.sessions = [k \in DOMAIN @ \cup {sessionKey} |->
                            IF k = sessionKey THEN ref ELSE @[k]],
            !.store = SaveSessionLocal(@, routineId, m.objects[ref], t, ok)]

\* Mutant: the completeness test is made before the item is marked.
ManagerCompleteItem_ChecksFirst(m, u, routineId, itemId, t, ok) ==
    LET routine == Routines[routineId]
        got     == GetSession(m, routineId, NULL, t)
        item    == GetItem(routine, itemId)
    IN  IF ~item.found
            THEN [m |-> got.m, user |-> u, found |-> FALSE]
        ELSE
            LET full     == IsComplete(got.m.objects[got.ref], routine)
                marked   == SessionCompleteItem(got.m.objects[got.ref], itemId,
                                                item.skillRewards, t)
                awarded  == AddRoutineRewards(u, item.skillRewards, t)
                tasked   == CompleteTask(awarded.user, t)
                session  == IF full THEN Complete(marked, t) ELSE marked
                u2       == IF full THEN CompleteRoutine(tasked, t) ELSE tasked
                m2       == [got.m EXCEPT !.objects[got.ref] = session]
            IN  [m |-> SaveSession(m2, routineId, got.ref, t, ok),
                 user |-> u2,
                 found |-> TRUE,
                 xpResults |-> awarded.results,
                 isRoutineComplete |-> IsComplete(session, routine)]

\* Mutant: the task is counted before the item lookup is tested.
ManagerCompleteItem_CountsFirst(m, u, routineId, itemId, t, ok) ==
    LET routine == Routines[routineId]
        got     == GetSession(m, routineId, NULL, t)
        item    == GetItem(routine, itemId)
        counted == CompleteTask(u, t)
    IN  IF ~item.found
            THEN [m |-> got.m, user |-> counted, found |-> FALSE]
        ELSE
            LET marked   == SessionCompleteItem(got.m.objects[got.ref], itemId,
                                                item.skillRewards, t)
                awarded  == AddRoutineRewards(counted, item.skillRewards, t)
                full     == IsComplete(marked, routine)
                session  == IF full THEN Complete(marked, t) ELSE marked
                u2       == IF full THEN CompleteRoutine(awarded.user, t)
                            ELSE awarded.user
                m2       == [got.m EXCEPT !.objects[got.ref] = session]
            IN  [m |-> SaveSession(m2, routineId, got.ref, t, ok),
                 user |-> u2,
                 found |-> TRUE,
                 xpResults |-> awarded.results,
                 isRoutineComplete |-> IsComplete(session, routine)]

\* Mutant: the session is saved first and a failed save ends the call
\* before the item is marked and rewarded.
ManagerCompleteItem_SavesFirst(m, u, routineId, itemId, t, ok) ==
    LET routine == Routines[routineId]
        got     == GetSession(m, routineId, NULL, t)
        item    == GetItem(routine, itemId)
    IN  IF ~item.found
            THEN [m |-> got.m, user |-> u, found |-> FALSE]
        ELSE IF ~ok
            THEN [m |-> got.m, user |-> u, found |-> TRUE,
                  xpResults |-> << >>,
                  isRoutineComplete |-> IsComplete(got.m.objects[got.ref], routine)]
        ELSE
            LET marked   == SessionCompleteItem(got.m.objects[got.ref], itemId,
                                                item.skillRewards, t)
                awarded  == AddRoutineRewards(u, item.skillRewards, t)
                tasked   == CompleteTask(awarded.user, t)
                full     == IsComplete(marked, routine)
                session  == IF full THEN Complete(marked, t) ELSE marked
                u2       == IF full THEN CompleteRoutine(tasked, t) ELSE tasked
                m2       == [got.m EXCEPT !.objects[got.ref] = session]
            IN  [m |-> SaveSession(m2, routineId, got.ref, t, ok),
                 user |-> u2,
                 found |-> TRUE,
                 xpResults |-> awarded.results,
                 isRoutineComplete |-> IsComplete(session, routine)]

\* Mutant: the routine is counted and the streak updated before the item's
\* rewards are awarded.
ManagerCompleteItem_StreakFirst(m, u, routineId, itemId, t, ok) ==
    LET routine == Routines[routineId]
        got     == GetSession(m, routineId, NULL, t)
        item    == GetItem(routine, itemId)
    IN  IF ~item.found
            THEN [m |-> got.m, user |-> u, found |-> FALSE]
        ELSE
            LET marked   == SessionCompleteItem(got.m.objects[got.ref], itemId,
                                                item.skillRewards, t)
                full     == IsComplete(marked, routine)
                session  == IF full THEN Complete(marked, t) ELSE marked
                u1       == IF full THEN CompleteRoutine(u, t) ELSE u
                awarded  == AddRoutineRewards(u1, item.skillRewards, t)
                u2       == CompleteTask(awarded.user, t)
                m2       == [got.m EXCEPT !.objects[got.ref] = session]
            IN  [m |-> SaveSession(m2, routineId, got.ref, t, ok),
                 user |-> u2,
                 found |-> TRUE,
                 xpResults |-> awarded.results,
                 isRoutineComplete |-> IsComplete(session, routine)]

\* RoutineManager.completeItem(routineId, itemId, user) at time t
ManagerCompleteItem(m, u, routineId, itemId, t, ok) ==
    LET routine == Routines[routineId]
        got     == GetSession(m, routineId, NULL, t)
        item    == GetItem(routine, itemId)
    IN  IF ~item.found
            THEN [m |-> got.m, user |-> u, found |-> FALSE]
        ELSE
            LET marked   == SessionCompleteItem(got.m.objects[got.ref], itemId,
                                                item.skillRewards, t)
                awarded  == AddRoutineRewards(u, item.skillRewards, t)
                tasked   == CompleteTask(awarded.user, t)
                full     == IsComplete(marked, routine)
                session  == IF full THEN Complete(marked, t) ELSE marked
                u2       == IF full THEN CompleteRoutine(tasked, t) ELSE tasked
                m2       == [got.m EXCEPT !.objects[got.ref] = session]
            IN  [m |-> SaveSession(m2, routineId, got.ref, t, ok),
                 user |-> u2,
                 found |-> TRUE,
                 xpResults |-> awarded.results,
                 isRoutineComplete |-> IsComplete(session, routine)]

\* Mutant: a session left without completed items is reset as well.
ManagerUncompleteItem_Resets(m, routineId, itemId, t, ok) ==
    LET routine == Routines[routineId]
        got     == GetSession(m, routineId, NULL, t)
        item    == GetItem(routine, itemId)
    IN  IF ~item.found
            THEN [m |-> got.m, found |-> FALSE]
        ELSE
            LET undone  == SessionUncompleteItem(got.m.objects[got.ref], itemId,
                                                 item.skillRewards)
                session == IF undone.completedItems = << >>
                               THEN Reset(undone) ELSE undone
                m2      == [got.m EXCEPT !.objects[got.ref] = session]
            IN  [m |-> SaveSession(m2, routineId, got.ref, t, ok),
                 found |-> TRUE]

\* RoutineManager.uncompleteItem(routineId, itemId) at time t
ManagerUncompleteItem(m, routineId, itemId, t, ok) ==
    LET routine == Routines[routineId]
        got     == GetSession(m, routineId, NULL, t)
        item    == GetItem(routine, itemId)
    IN  IF ~item.found
            THEN [m |-> got.m, found |-> FALSE]
        ELSE
            LET session == SessionUncompleteItem(got.m.objects[got.ref], itemId,
                                                 item.skillRewards)
                m2      == [got.m EXCEPT !.objects[got.ref] = session]
            IN  [m |-> SaveSession(m2, routineId, got.ref, t, ok),
                 found |-> TRUE]

\* RoutineManager.resetSession(routineId, date) at time t
ManagerResetSession(m, routineId, date, t, ok) ==
    LET got == GetSession(m, routineId, date, t)
        m2  == [got.m EXCEPT !.objects[got.ref] = Reset(@)]
    IN  SaveSession(m2, routineId, got.ref, t, ok)

\* StorageManager.saveUserLocal(user)
SaveUserLocal(u) == UserToJSON(u)

\* App.saveUser at time t: the session of today of every routine is fetched
\* and saved, after the user.
RECURSIVE SaveTodaySessions(_, _, _, _)
SaveTodaySessions(m, ids, t, ok) ==
    IF ids = {} THEN m
    ELSE LET routineId == CHOOSE r \in ids : TRUE
             got       == GetSession(m, routineId, NULL, t)
             saved     == [got.m EXCEPT
                              !.store = SaveSessionLocal(@, routineId,
                                            got.m.objects[got.ref], t, ok)]
         IN  SaveTodaySessions(saved, ids \ {routineId}, t, ok)

-----------------------------------------------------------------------------
(* Achievement and AchievementManager.  The manager's Map is the function  *)
(* from achievement id to unlockedAt, iterated in catalog order.            *)

\* ACHIEVEMENTS: id and condition of each entry, in catalog order.  The
\* condition is its kind (the user field compared) and threshold.
ACHIEVEMENTS ==
    <<[id |-> "first-routine",   kind |-> "routines",  threshold |-> 1],
      [id |-> "first-task",      kind |-> "tasks",     threshold |-> 1],
      [id |-> "streak-5",        kind |-> "streak",    threshold |-> 5],
      [id |-> "streak-7",        kind |-> "streak",    threshold |-> 7],
      [id |-> "streak-15",       kind |-> "streak",    threshold |-> 15],
      [id |-> "streak-25",       kind |-> "streak",    threshold |-> 25],
      [id |-> "streak-100",      kind |-> "streak",    threshold |-> 100],
      [id |-> "streak-1000",     kind |-> "streak",    threshold |-> 1000],
      [id |-> "routine-10",      kind |-> "routines",  threshold |-> 10],
      [id |-> "routine-25",      kind |-> "routines",  threshold |-> 25],
      [id |-> "routine-50",      kind |-> "routines",  threshold |-> 50],
      [id |-> "routine-100",     kind |-> "routines",  threshold |-> 100],
      [id |-> "skill-level-10",  kind |-> "someLevel", threshold |-> 10],
      [id |-> "skill-level-25",  kind |-> "someLevel", threshold |-> 25],
      [id |-> "skill-level-50",  kind |-> "someLevel", threshold |-> 50],
      [id |-> "skill-level-75",  kind |-> "someLevel", threshold |-> 75],
      [id |-> "skill-level-100", kind |-> "someLevel", threshold |-> 100],
      [id |-> "all-skills-10",   kind |-> "everyLevel", threshold |-> 10],
      [id |-> "all-skills-25",   kind |-> "everyLevel", threshold |-> 25],
      [id |-> "all-skills-50",   kind |-> "everyLevel", threshold |-> 50],
      [id |-> "first-prestige",  kind |-> "somePrestige", threshold |-> 1],
      [id |-> "prestige-5",      kind |-> "somePrestige", threshold |-> 5],
      [id |-> "xp-1000",         kind |-> "xp",        threshold |-> 1000],
      [id |-> "xp-10000",        kind |-> "xp",        threshold |-> 10000],
      [id |-> "xp-50000",        kind |-> "xp",        threshold |-> 50000],
      [id |-> "tasks-100",       kind |-> "tasks",     threshold |-> 100],
      [id |-> "tasks-500",       kind |-> "tasks",     threshold |-> 500],
      [id |-> "tasks-1000",      kind |-> "tasks",     threshold |-> 1000]>>

\* The keys of AchievementManager.achievements.
AchievementIds == {ACHIEVEMENTS[i].id : i \in 1..Len(ACHIEVEMENTS)}

\* achievement.condition(user)
Condition(a, u) ==
    CASE a.kind = "routines" -> u.stats.totalRoutinesCompleted >= a.threshold
      [] a.kind = "tasks" -> u.stats.totalTasksCompleted >= a.threshold
      [] a.kind = "streak" -> u.streak.current >= a.threshold
      [] a.kind = "someLevel" ->
            \E c \in DOMAIN u.skills : u.skills[c].level >= a.threshold
      [] a.kind = "everyLevel" ->
            \A c \in DOMAIN u.skills : u.skills[c].level >= a.threshold
      [] a.kind = "somePrestige" ->
            \E c \in DOMAIN u.skills : u.skills[c].prestige >= a.threshold
      [] a.kind = "xp" -> u.stats.totalXPEarned >= a.threshold

\* AchievementManager.initializeAchievements: every unlockedAt is null.
NewAchievements == [id \in AchievementIds |-> NULL]

\* Achievement.isUnlocked
IsUnlocked(unlockedAt) == unlockedAt # NULL

\* Achievement.unlock at time t: the unlockedAt afterwards.
Unlock(unlockedAt, t) == IF ~IsUnlocked(unlockedAt) THEN t ELSE unlockedAt

\* Mutant: the id is pushed without the includes test.
UnlockAchievement_Pushes(u, achievementId) ==
    [user  |-> [u EXCEPT !.stats.achievements = Append(@, achievementId)],
     added |-> TRUE]

\* User.unlockAchievement(achievementId): the user afterwards and the
\* returned boolean.
UnlockAchievement(u, achievementId) ==
    IF ~Has(u.stats.achievements, achievementId)
        THEN [user  |-> [u EXCEPT !.stats.achievements = Append(@, achievementId)],
              added |-> TRUE]
        ELSE [user |-> u, added |-> FALSE]

\* The loop of checkAchievements from catalog entry i on.
RECURSIVE CheckFrom(_, _, _, _, _)
CheckFrom(i, ach, u, newlyUnlocked, t) ==
    IF i > Len(ACHIEVEMENTS)
        THEN [achievements |-> ach, user |-> u, newlyUnlocked |-> newlyUnlocked]
    ELSE LET a == ACHIEVEMENTS[i]
         IN  IF IsUnlocked(ach[a.id]) THEN CheckFrom(i + 1, ach, u, newlyUnlocked, t)
             ELSE IF Condition(a, u)
                 THEN CheckFrom(i + 1,
                                [ach EXCEPT ![a.id] = Unlock(@, t)],
                                UnlockAchievement(u, a.id).user,
                                Append(newlyUnlocked, a.id), t)
                 ELSE CheckFrom(i + 1, ach, u, newlyUnlocked, t)

\* Mutant: every achievement whose condition holds is reported.
CheckAchievements_ReportsAll(ach, u, t) ==
    LET result == CheckFrom(1, ach, u, << >>, t)
        held   == SelectSeq(ACHIEVEMENTS, LAMBDA a : Condition(a, u))
    IN  [result EXCEPT !.newlyUnlocked = [i \in 1..Len(held) |-> held[i].id]]

\* AchievementManager.checkAchievements(user) at time t: the manager and
\* the user afterwards and the ids of the returned achievements, in order.
CheckAchievements(ach, u, t) == CheckFrom(1, ach, u, << >>, t)

\* Mutant: the isUnlocked test is inverted, so that no locked achievement
\* is restored.
RECURSIVE RestoreUnlocked_Inverted(_, _, _)
RestoreUnlocked_Inverted(ach, unlockedIds, t) ==
    IF unlockedIds = << >> THEN ach
    ELSE LET id == Head(unlockedIds)
         IN  RestoreUnlocked_Inverted(
                 IF id \in DOMAIN ach /\ IsUnlocked(ach[id])
                     THEN [ach EXCEPT ![id] = Unlock(@, t)]
                     ELSE ach,
                 Tail(unlockedIds), t)

\* Mutant: every listed achievement is stamped anew.
RECURSIVE RestoreUnlocked_Restamps(_, _, _)
RestoreUnlocked_Restamps(ach, unlockedIds, t) ==
    IF unlockedIds = << >> THEN ach
    ELSE LET id == Head(unlockedIds)
         IN  RestoreUnlocked_Restamps(
                 IF id \in DOMAIN ach THEN [ach EXCEPT ![id] = t] ELSE ach,
                 Tail(unlockedIds), t)

\* AchievementManager.restoreUnlocked(unlockedIds) at time t
RECURSIVE RestoreUnlocked(_, _, _)
RestoreUnlocked(ach, unlockedIds, t) ==
    IF unlockedIds = << >> THEN ach
    ELSE LET id == Head(unlockedIds)
         IN  RestoreUnlocked(
                 IF id \in DOMAIN ach /\ ~IsUnlocked(ach[id])
                     THEN [ach EXCEPT ![id] = Unlock(@, t)]
                     ELSE ach,
                 Tail(unlockedIds), t)

-----------------------------------------------------------------------------
(* Loading a persisted user.  A field the snapshot lacks is absent from    *)
(* the record `data'; undefined is NULL.                                    *)

\* User.fromJSON(data) at time t: Object.entries(data.skills) throws when
\* data.skills is undefined; categories the snapshot lacks keep the Skill
\* of the constructor.
UserFromJSON(data, t) ==
    IF "skills" \notin DOMAIN data
        THEN [error |-> "TypeError: Cannot convert undefined or null to object"]
        ELSE [error |-> "none",
              user  |->
                [username   |-> IF "username" \in DOMAIN data
                                    THEN data.username ELSE "Hunter",
                 createdAt  |-> IF "createdAt" \in DOMAIN data
                                    THEN data.createdAt ELSE NULL,
                 lastActive |-> IF "lastActive" \in DOMAIN data
                                    THEN data.lastActive ELSE NULL,
                 skills     |-> [c \in Categories \cup DOMAIN data.skills |->
                                    IF c \in DOMAIN data.skills
                                        THEN SkillFromJSON(data.skills[c])
                                        ELSE NewSkill],
                 streak     |-> IF "streak" \in DOMAIN data
                                    THEN data.streak ELSE NewUser(t).streak,
                 stats      |-> IF "stats" \in DOMAIN data
                                    THEN data.stats ELSE NewUser(t).stats]]

\* App.loadUser at time t, the AchievementManager new.  Without saved
\* data the user is new User('Hunter').  With saved data: User.fromJSON,
\* then restoreUnlocked(user.stats.achievements), whose for...of throws
\* when the array is undefined.
LoadUser(data, ach, t) ==
    LET loaded == UserFromJSON(data, t)
    IN  IF "absent" \in DOMAIN data
            THEN [error |-> "none", user |-> NewUser(t), achievements |-> ach]
        ELSE IF loaded.error # "none"
            THEN [error |-> loaded.error, user |-> NoUser, achievements |-> ach]
        ELSE IF "achievements" \notin DOMAIN loaded.user.stats
            THEN [error |-> "TypeError: unlockedIds is not iterable",
                  user |-> loaded.user, achievements |-> ach]
        ELSE [error |-> "none", user |-> loaded.user,
              achievements |-> RestoreUnlocked(ach, loaded.user.stats.achievements, t)]

\* checkAchievements(user) for a loaded user at time t: when stats has no
\* achievements array, the first due achievement is unlocked and
\* user.unlockAchievement then throws on undefined.includes.
CheckLoaded(ach, u, t) ==
    IF "achievements" \in DOMAIN u.stats
        THEN LET result == CheckAchievements(ach, u, t)
             IN  [error |-> "none", achievements |-> result.achievements,
                  user |-> result.user, newlyUnlocked |-> result.newlyUnlocked]
        ELSE LET due == SelectSeq(ACHIEVEMENTS,
                            LAMBDA a : ~IsUnlocked(ach[a.id]) /\ Condition(a, u))
             IN  IF due = << >>
                     THEN [error |-> "none", achievements |-> ach, user |-> u,
                           newlyUnlocked |-> << >>]
                     ELSE [error |-> "TypeError: Cannot read properties of undefined",
                           achievements |-> [ach EXCEPT ![due[1].id] = Unlock(@, t)],
                           user |-> u, newlyUnlocked |-> << >>]

-----------------------------------------------------------------------------
(* Initial state *)

Init ==
    /\ skill = NewSkill
    /\ calls = 0
    /\ user = NewUser(0)
    /\ sessions = << >>
    /\ objects = << >>
    /\ store = << >>
    /\ savedUser = NoUser
    /\ now = 0
    /\ achievements = NewAchievements
    /\ ret = [op |-> "init"]

-----------------------------------------------------------------------------
(* Skill unit level: calls made directly on one Skill object *)

\* skill.addXP(xp, bonusPct / 100)
SkillAddXP(xp, bonusPct) ==
    /\ calls < MaxCalls
    /\ LET result == AddXP(skill, xp, bonusPct)
       IN  /\ skill' = result.skill
           /\ ret' = [op |-> "addXP", before |-> skill, xp |-> xp,
                      bonus |-> bonusPct, leveledUp |-> result.leveledUp,
                      newLevel |-> result.newLevel,
                      xpGained |-> result.xpGained]
    /\ calls' = calls + 1
    /\ UNCHANGED <<achievements, user, sessions, objects, store, savedUser, now>>

\* skill.prestige()
SkillPrestige ==
    /\ LET result == CallPrestige(skill)
       IN  /\ skill' = result.skill
           /\ ret' = [op |-> "prestige", before |-> skill,
                      error |-> result.error,
                      prestigeLevel |-> result.prestigeLevel,
                      multiplier |-> result.multiplier]
    /\ UNCHANGED <<achievements, calls, user, sessions, objects, store, savedUser, now>>

\* skill = Skill.fromJSON(data)
SkillLoad(data) ==
    /\ skill' = SkillFromJSON(data)
    /\ ret' = [op |-> "fromJSON", before |-> skill]
    /\ UNCHANGED <<achievements, calls, user, sessions, objects, store, savedUser, now>>

SkillNext ==
    \/ \E xp \in RawXPs, bonusPct \in BonusPercents : SkillAddXP(xp, bonusPct)
    \/ SkillPrestige
    \/ \E data \in SkillSnapshots : SkillLoad(data)

SkillSpec == Init /\ [][SkillNext]_vars

-----------------------------------------------------------------------------
(* Manager level: the RoutineManager operations, direct XP awards and the   *)
(* prestige handler of the App, within one calendar day.                   *)

\* completeItem calls made in all (each counts one task).
MaxTasks == 3

\* Direct User.addSkillXP calls made in all.
MaxAwards == 1

\* Raw XP amounts of direct awards (one reaches level 100 at once).
AwardXPs == {4000000}

\* Skill types of direct awards; "focus" is no skill of the user.
AwardTypes == {"discipline", "focus"}

\* Outcomes of localStorage.setItem: TRUE stored.
StorageOutcomes == {TRUE}

\* The state of the RoutineManager and its storage.
Manager == [sessions |-> sessions, objects |-> objects, store |-> store]

SetManager(m) ==
    /\ sessions' = m.sessions
    /\ objects' = m.objects
    /\ store' = m.store

\* Date arguments of resetSession: none (the session of today).
DateArgs == {NULL}

\* The (routineId, itemId) pairs callers pass: every item of every routine,
\* and an item id that is in no routine.
ItemCalls ==
    {<<"morning", "m1">>, <<"morning", "m2">>, <<"morning", "m3">>,
     <<"evening", "e1">>, <<"morning", "zz">>}

\* Skill types whose prestige button is pressed.
PrestigeTypes == {"discipline", "physical"}

\* routineManager.completeItem(routineId, itemId, user)
CompleteItem(routineId, itemId) ==
    /\ user.stats.totalTasksCompleted < MaxTasks
    /\ \E ok \in StorageOutcomes :
        \E result \in {ManagerCompleteItem(Manager, user, routineId, itemId,
                                            now, ok)} :
            /\ SetManager(result.m)
            /\ user' = result.user
            /\ ret' = [op |-> "completeItem", found |-> result.found,
                       isRoutineComplete |->
                           IF result.found THEN result.isRoutineComplete
                           ELSE FALSE]
    /\ UNCHANGED <<achievements, skill, calls, savedUser, now>>

\* routineManager.uncompleteItem(routineId, itemId)
UncompleteItem(routineId, itemId) ==
    /\ \E ok \in StorageOutcomes :
        \E result \in {ManagerUncompleteItem(Manager, routineId, itemId, now, ok)} :
            /\ SetManager(result.m)
            /\ ret' = [op |-> "uncompleteItem", found |-> result.found]
    /\ UNCHANGED <<achievements, skill, calls, user, savedUser, now>>

\* routineManager.resetSession(routineId, date)
ResetSession(routineId, date) ==
    /\ \E ok \in StorageOutcomes :
        SetManager(ManagerResetSession(Manager, routineId, date, now, ok))
    /\ ret' = [op |-> "resetSession"]
    /\ UNCHANGED <<achievements, skill, calls, user, savedUser, now>>

\* user.addSkillXP(skillType, xp)
AwardXP(skillType, xp) ==
    /\ calls < MaxAwards
    /\ LET result == AddSkillXP(user, skillType, xp, now)
       IN  /\ user' = result.user
           /\ ret' = [op |-> "addSkillXP", found |-> result.found]
    /\ calls' = calls + 1
    /\ UNCHANGED <<achievements, skill, sessions, objects, store, savedUser, now>>

\* app.prestigeSkill(skillType), the confirmation accepted.  Below level 100
\* the handler alerts and returns.  Otherwise the callback calls
\* skill.prestige() and, when that returns, re-renders and saves the user.
PrestigeSkill(skillType) ==
    /\ IF user.skills[skillType].level < 100
          THEN /\ ret' = [op |-> "prestige", skill |-> skillType,
                          error |-> "alert"]
               /\ UNCHANGED <<user, sessions, objects, store, savedUser>>
          ELSE LET result == CallPrestige(user.skills[skillType])
                   u2     == [user EXCEPT !.skills[skillType] = result.skill]
               IN  /\ user' = u2
                   /\ ret' = [op |-> "prestige", skill |-> skillType,
                              error |-> result.error]
                   /\ IF result.error = "none"
                         THEN /\ savedUser' = SaveUserLocal(u2)
                              /\ SetManager(SaveTodaySessions(Manager, RoutineIds,
                                                              now, TRUE))
                         ELSE UNCHANGED <<sessions, objects, store, savedUser>>
    /\ UNCHANGED <<achievements, skill, calls, now>>

Next ==
    \/ \E call \in ItemCalls : CompleteItem(call[1], call[2])
    \/ \E call \in ItemCalls : UncompleteItem(call[1], call[2])
    \/ \E routineId \in RoutineIds, date \in DateArgs :
          ResetSession(routineId, date)
    \/ \E skillType \in AwardTypes, xp \in AwardXPs :
          AwardXP(skillType, xp)
    \/ \E skillType \in PrestigeTypes : PrestigeSkill(skillType)

Spec == Init /\ [][Next]_vars

-----------------------------------------------------------------------------
(* User level: routine completions reported to the User over calendar days *)

\* user.completeRoutine() calls made in all.
MaxRoutines == 5

\* The clock advances by one instant.
Tick ==
    /\ Day(now + 1) <= MaxDay
    /\ now' = now + 1
    /\ ret' = [op |-> "tick"]
    /\ UNCHANGED <<achievements, skill, calls, user, sessions, objects, store, savedUser>>

\* user.completeRoutine()
UserCompleteRoutine ==
    /\ user.stats.totalRoutinesCompleted < MaxRoutines
    /\ user' = CompleteRoutine(user, now)
    /\ ret' = [op |-> "completeRoutine", before |-> user.streak,
               result |-> UpdateStreak(user.streak, now).current]
    /\ UNCHANGED <<achievements, skill, calls, sessions, objects, store, savedUser, now>>

UserNext ==
    \/ Tick
    \/ UserCompleteRoutine

UserSpec == Init /\ [][UserNext]_vars

-----------------------------------------------------------------------------
(* User.getStreakBonus as a function of the streak *)

\* Largest streak.current drawn.
MaxStreak == 120

\* A user whose streak has reached n days.
BonusInit ==
    \E n \in 0..MaxStreak :
        /\ user = [NewUser(0) EXCEPT
                      !.streak = [current |-> n, longest |-> n,
                                  lastCompleted |-> IF n = 0 THEN NULL ELSE 0],
                      !.stats.totalRoutinesCompleted = n]
        /\ skill = NewSkill
        /\ calls = 0
        /\ sessions = << >>
        /\ objects = << >>
        /\ store = << >>
        /\ savedUser = NoUser
        /\ now = 0
        /\ achievements = NewAchievements
        /\ ret = [op |-> "init"]

\* user.getStreakBonus()
QueryStreakBonus ==
    /\ ret' = [op |-> "getStreakBonus",
               bonus |-> GetStreakBonus(user.streak.current)]
    /\ UNCHANGED <<achievements, skill, calls, user, sessions, objects, store, savedUser, now>>

BonusNext == QueryStreakBonus

BonusSpec == BonusInit /\ [][BonusNext]_vars

-----------------------------------------------------------------------------
(* Session unit level: the methods of one RoutineSession of the morning    *)
(* routine, called as RoutineManager calls them (an item of the routine    *)
(* with its own skillRewards; complete() once isComplete holds).           *)

\* Last reading of the clock at the session unit level.
MaxSessionTime == 2

\* The reference of the session under test.
SessionRef == <<"morning", 0>>

\* The routine the session belongs to.
SessionRoutine == Routines["morning"]

\* The item ids passed to completeItem / uncompleteItem.
SessionItemIds == {"m1", "m2", "m3"}

\* item.skillRewards of an item of the routine.
RewardsOf(itemId) == GetItem(SessionRoutine, itemId).skillRewards

SessionInit ==
    /\ objects = [r \in {SessionRef} |-> NewSession("morning", NULL, 0)]
    /\ sessions = [k \in {SessionRef} |-> SessionRef]
    /\ skill = NewSkill
    /\ calls = 0
    /\ user = NewUser(0)
    /\ store = << >>
    /\ savedUser = NoUser
    /\ now = 0
    /\ achievements = NewAchievements
    /\ ret = [op |-> "init"]

\* The clock advances between calls.
SessionTick ==
    /\ now < MaxSessionTime
    /\ now' = now + 1
    /\ ret' = [op |-> "tick"]
    /\ UNCHANGED <<achievements, skill, calls, user, sessions, objects, store, savedUser>>

\* session.completeItem(itemId, item.skillRewards)
SessionDoCompleteItem(itemId) ==
    /\ objects' = [objects EXCEPT ![SessionRef] =
                      SessionCompleteItem(@, itemId, RewardsOf(itemId), now)]
    /\ ret' = [op |-> "completeItem", itemId |-> itemId,
               before |-> objects[SessionRef]]
    /\ UNCHANGED <<achievements, skill, calls, user, sessions, store, savedUser, now>>

\* session.uncompleteItem(itemId, item.skillRewards)
SessionDoUncompleteItem(itemId) ==
    /\ objects' = [objects EXCEPT ![SessionRef] =
                      SessionUncompleteItem(@, itemId, RewardsOf(itemId))]
    /\ ret' = [op |-> "uncompleteItem", itemId |-> itemId,
               before |-> objects[SessionRef]]
    /\ UNCHANGED <<achievements, skill, calls, user, sessions, store, savedUser, now>>

\* if (session.isComplete(routine)) session.complete()
SessionDoComplete ==
    /\ IsComplete(objects[SessionRef], SessionRoutine)
    /\ objects' = [objects EXCEPT ![SessionRef] = Complete(@, now)]
    /\ ret' = [op |-> "complete", before |-> objects[SessionRef]]
    /\ UNCHANGED <<achievements, skill, calls, user, sessions, store, savedUser, now>>

\* session.reset()
SessionDoReset ==
    /\ objects' = [objects EXCEPT ![SessionRef] = Reset(@)]
    /\ ret' = [op |-> "reset", before |-> objects[SessionRef]]
    /\ UNCHANGED <<achievements, skill, calls, user, sessions, store, savedUser, now>>

SessionNext ==
    \/ SessionTick
    \/ \E itemId \in SessionItemIds : SessionDoCompleteItem(itemId)
    \/ \E itemId \in SessionItemIds : SessionDoUncompleteItem(itemId)
    \/ SessionDoComplete
    \/ SessionDoReset

SessionSpec == SessionInit /\ [][SessionNext]_vars

-----------------------------------------------------------------------------
(* Reward level: User.addSkillXP and User.addRoutineRewards called on a    *)
(* user while the clock advances.                                          *)

\* addSkillXP / addRoutineRewards calls made in all.
MaxRewardCalls == 2

\* Skill types passed to addSkillXP; "focus" is no skill of the user.
RewardTypes == {"physical", "focus"}

\* skillRewards objects passed to addRoutineRewards, as entry sequences.
RewardMaps ==
    {<< <<"discipline", 150>>, <<"focus", 10>> >>,
     << <<"focus", 10>>, <<"physical", 150>>, <<"mental", 1000>> >>,
     << <<"focus", 10>> >>}

\* user.addSkillXP(skillType, xp)
RewardAddSkillXP(skillType, xp) ==
    /\ calls < MaxRewardCalls
    /\ \E result \in {AddSkillXP(user, skillType, xp, now)} :
          /\ user' = result.user
          /\ ret' = [op |-> "addSkillXP", skillType |-> skillType,
                     found |-> result.found, before |-> user]
    /\ calls' = calls + 1
    /\ UNCHANGED <<achievements, skill, sessions, objects, store, savedUser, now>>

\* user.addRoutineRewards(skillRewards)
RewardAddRoutineRewards(skillRewards) ==
    /\ calls < MaxRewardCalls
    /\ \E result \in {AddRoutineRewards(user, skillRewards, now)} :
          /\ user' = result.user
          /\ ret' = [op |-> "addRoutineRewards", skillRewards |-> skillRewards,
                     results |-> result.results, before |-> user]
    /\ calls' = calls + 1
    /\ UNCHANGED <<achievements, skill, sessions, objects, store, savedUser, now>>

RewardNext ==
    \/ SessionTick
    \/ \E skillType \in RewardTypes : RewardAddSkillXP(skillType, 150)
    \/ \E skillRewards \in RewardMaps : RewardAddRoutineRewards(skillRewards)

RewardSpec == Init /\ [][RewardNext]_vars

-----------------------------------------------------------------------------
(* History level: one RoutineManager over several calendar days, sessions   *)
(* requested with and without a date, and the page reloaded (a new process  *)
(* with an empty session cache over the same LocalStorage).                 *)

\* The last instant of the clock.
MaxHistoryTime == 2

\* The (routineId, itemId) pairs callers pass.
HistoryItemCalls == {<<"evening", "e1">>}

\* completeItem calls made in all.
MaxHistoryTasks == 1

\* Date arguments: none (today) or any instant up to now.
HistoryDates == {NULL} \cup 0..now

\* The calendar day a date argument names at time t.
DayOf(date, t) == IF date # NULL THEN Day(date) ELSE Day(t)

\* Time passes.
HistoryTick ==
    /\ now < MaxHistoryTime
    /\ now' = now + 1
    /\ ret' = [op |-> "tick"]
    /\ UNCHANGED <<achievements, skill, calls, user, sessions, objects, store, savedUser>>

\* routineManager.getSession(routineId, date)
HistoryGetSession(routineId, date) ==
    /\ \E got \in {GetSession(Manager, routineId, date, now)} :
          /\ SetManager(got.m)
          /\ ret' = [op |-> "getSession", routineId |-> routineId,
                     date |-> date, ref |-> got.ref]
    /\ UNCHANGED <<achievements, skill, calls, user, savedUser, now>>

\* routineManager.completeItem(routineId, itemId, user)
HistoryCompleteItem(routineId, itemId) ==
    /\ user.stats.totalTasksCompleted < MaxHistoryTasks
    /\ \E result \in {ManagerCompleteItem(Manager, user, routineId, itemId,
                                          now, TRUE)} :
          /\ SetManager(result.m)
          /\ user' = result.user
          /\ ret' = [op |-> "completeItem", routineId |-> routineId,
                     date |-> NULL, found |-> result.found]
    /\ UNCHANGED <<achievements, skill, calls, savedUser, now>>

\* routineManager.uncompleteItem(routineId, itemId)
HistoryUncompleteItem(routineId, itemId) ==
    /\ \E result \in {ManagerUncompleteItem(Manager, routineId, itemId, now,
                                            TRUE)} :
          /\ SetManager(result.m)
          /\ ret' = [op |-> "uncompleteItem", routineId |-> routineId,
                     date |-> NULL, found |-> result.found]
    /\ UNCHANGED <<achievements, skill, calls, user, savedUser, now>>

\* routineManager.resetSession(routineId, date)
HistoryResetSession(routineId, date) ==
    /\ SetManager(ManagerResetSession(Manager, routineId, date, now, TRUE))
    /\ ret' = [op |-> "resetSession", routineId |-> routineId,
               date |-> date, found |-> TRUE]
    /\ UNCHANGED <<achievements, skill, calls, user, savedUser, now>>

\* The page is reloaded: new RoutineManager(storageManager), its Map empty.
HistoryRestart ==
    /\ sessions # << >>
    /\ sessions' = << >>
    /\ objects' = << >>
    /\ ret' = [op |-> "restart"]
    /\ UNCHANGED <<achievements, skill, calls, user, store, savedUser, now>>

HistoryNext ==
    \/ HistoryTick
    \/ \E routineId \in RoutineIds, date \in HistoryDates :
          HistoryGetSession(routineId, date)
    \/ \E call \in HistoryItemCalls : HistoryCompleteItem(call[1], call[2])
    \/ \E call \in HistoryItemCalls : HistoryUncompleteItem(call[1], call[2])
    \/ \E routineId \in RoutineIds, date \in HistoryDates :
          HistoryResetSession(routineId, date)
    \/ HistoryRestart

HistorySpec == Init /\ [][HistoryNext]_vars

-----------------------------------------------------------------------------
(* Achievement level: one AchievementManager and one User; the user is      *)
(* changed by routine and task completions, XP awards and prestige calls    *)
(* over calendar days, between checkAchievements and restoreUnlocked calls. *)

\* The days of daily use behind the user at the start.
PastDays == 4

\* The days that pass after the start.
MaxAchievementDays == 2

\* user.completeRoutine() calls made after the start.
MaxAchievementRoutines == 2

\* Raw XP amounts of direct awards (one reaches level 100 at once).
AchievementXPs == {1000, 4000000}

\* Id lists passed to restoreUnlocked besides user.stats.achievements: an
\* id unlocked since the first day and an id that is in no catalog.
RestoreLists == {<<"first-routine", "no-such-id">>}

\* Ids passed to user.unlockAchievement directly.
UnlockIds == {"first-task"}

\* The user and the manager after n days on each of which a routine was
\* completed (user.completeRoutine()) and the achievements were checked.
RECURSIVE Seasoned(_)
Seasoned(n) ==
    IF n = 0 THEN [user |-> NewUser(0), achievements |-> NewAchievements]
    ELSE LET before == Seasoned(n - 1)
             t      == (n - 1) * TicksPerDay
         IN  CheckAchievements(before.achievements,
                               CompleteRoutine(before.user, t), t)

AchievementInit ==
    /\ \E start \in {Seasoned(PastDays)} :
          /\ user = start.user
          /\ achievements = start.achievements
    /\ now = PastDays * TicksPerDay
    /\ skill = NewSkill
    /\ calls = 0
    /\ sessions = << >>
    /\ objects = << >>
    /\ store = << >>
    /\ savedUser = NoUser
    /\ ret = [op |-> "init"]

\* A calendar day passes.
AchievementTick ==
    /\ Day(now) < PastDays + MaxAchievementDays
    /\ now' = now + TicksPerDay
    /\ ret' = [op |-> "tick"]
    /\ UNCHANGED <<achievements, skill, calls, user, sessions, objects, store,
                   savedUser>>

\* user.completeRoutine()
AchievementCompleteRoutine ==
    /\ user.stats.totalRoutinesCompleted < PastDays + MaxAchievementRoutines
    /\ user' = CompleteRoutine(user, now)
    /\ ret' = [op |-> "completeRoutine"]
    /\ UNCHANGED <<achievements, skill, calls, sessions, objects, store,
                   savedUser, now>>

\* user.addSkillXP("discipline", xp)
AchievementAwardXP(xp) ==
    /\ calls < MaxAwards
    /\ user' = AddSkillXP(user, "discipline", xp, now).user
    /\ ret' = [op |-> "addSkillXP"]
    /\ calls' = calls + 1
    /\ UNCHANGED <<achievements, skill, sessions, objects, store, savedUser,
                   now>>

\* user.skills.discipline.prestige()
AchievementPrestige ==
    /\ \E result \in {CallPrestige(user.skills["discipline"])} :
          /\ user' = [user EXCEPT !.skills["discipline"] = result.skill]
          /\ ret' = [op |-> "prestige", error |-> result.error]
    /\ UNCHANGED <<achievements, skill, calls, sessions, objects, store,
                   savedUser, now>>

\* achievementManager.checkAchievements(user)
AchievementCheck ==
    /\ \E result \in {CheckAchievements(achievements, user, now)} :
          /\ achievements' = result.achievements
          /\ user' = result.user
          /\ ret' = [op |-> "checkAchievements",
                     newlyUnlocked |-> result.newlyUnlocked]
    /\ UNCHANGED <<skill, calls, sessions, objects, store, savedUser, now>>

\* achievementManager.restoreUnlocked(unlockedIds)
AchievementRestore(unlockedIds) ==
    /\ achievements' = RestoreUnlocked(achievements, unlockedIds, now)
    /\ ret' = [op |-> "restoreUnlocked", unlockedIds |-> unlockedIds]
    /\ UNCHANGED <<skill, calls, user, sessions, objects, store, savedUser,
                   now>>

\* user.unlockAchievement(achievementId)
AchievementUnlock(achievementId) ==
    /\ \E result \in {UnlockAchievement(user, achievementId)} :
          /\ user' = result.user
          /\ ret' = [op |-> "unlockAchievement", id |-> achievementId,
                     added |-> result.added]
    /\ UNCHANGED <<achievements, skill, calls, sessions, objects, store,
                   savedUser, now>>

AchievementNext ==
    \/ AchievementTick
    \/ AchievementCompleteRoutine
    \/ \E xp \in AchievementXPs : AchievementAwardXP(xp)
    \/ AchievementPrestige
    \/ AchievementCheck
    \/ \E unlockedIds \in RestoreLists \cup {user.stats.achievements} :
          AchievementRestore(unlockedIds)
    \/ \E achievementId \in UnlockIds : AchievementUnlock(achievementId)

AchievementSpec == AchievementInit /\ [][AchievementNext]_vars

-----------------------------------------------------------------------------
(* Load level: the App starts over LocalStorage holding a user snapshot (or *)
(* none) and a session snapshot of today, either with fields missing; the   *)
(* loaded (or new) user then completes items and has the achievements       *)
(* checked.                                                                 *)

\* The user snapshot stored after PastDays days of daily use.
StoredUser == UserToJSON(Seasoned(PastDays).user)

\* The snapshot with the fields of `missing' left out; "achievements"
\* stands for stats.achievements.
Without(data, missing) ==
    LET kept == [f \in DOMAIN data \ missing |-> data[f]]
    IN  IF "stats" \in DOMAIN kept /\ "achievements" \in missing
            THEN [kept EXCEPT !.stats =
                     [f \in DOMAIN data.stats \ {"achievements"} |-> data.stats[f]]]
            ELSE kept

\* User snapshots: any subset of the four fields missing.
UserSnapshots ==
    {Without(StoredUser, missing) :
        missing \in SUBSET {"skills", "streak", "stats", "achievements"}}

\* The stored morning session of the day of time t, m1 completed.
StoredSession(t) ==
    SessionToJSON(SessionCompleteItem(NewSession("morning", NULL, t), "m1",
                                      GetItem(Routines["morning"], "m1").skillRewards,
                                      t))

\* Session snapshots: any subset of the three fields missing.
SessionSnapshots(t) ==
    {[f \in DOMAIN StoredSession(t) \ missing |-> StoredSession(t)[f]] :
        missing \in SUBSET {"status", "completedItems", "xpEarned"}}

\* The (routineId, itemId) pairs the loaded user completes.
LoadItemCalls == {<<"morning", "m2">>, <<"evening", "e1">>}

LoadInit ==
    /\ now = PastDays * TicksPerDay
    /\ savedUser \in UserSnapshots \cup {NoUser}
    /\ \E data \in SessionSnapshots(now) :
          store = [k \in {<<"morning", Day(now)>>} |-> data]
    /\ user = NoUser
    /\ achievements = NewAchievements
    /\ sessions = << >>
    /\ objects = << >>
    /\ skill = NewSkill
    /\ calls = 0
    /\ ret = [op |-> "init"]

\* app.loadUser(): saved data are loaded; without saved data the new user
\* is saved (no routine is loaded yet, so no session is).
LoadSavedUser ==
    /\ ret.op = "init"
    /\ \E result \in {LoadUser(savedUser, achievements, now)} :
          /\ user' = result.user
          /\ achievements' = result.achievements
          /\ savedUser' = IF "absent" \in DOMAIN savedUser
                              THEN SaveUserLocal(result.user)
                              ELSE savedUser
          /\ ret' = [op |-> "loadUser", error |-> result.error]
    /\ UNCHANGED <<skill, calls, sessions, objects, store, now>>

\* routineManager.completeItem(routineId, itemId, user) with the loaded user
LoadCompleteItem(routineId, itemId) ==
    /\ user # NoUser
    /\ user.stats.totalTasksCompleted < MaxTasks
    /\ \E result \in {ManagerCompleteItem(Manager, user, routineId, itemId,
                                          now, TRUE)} :
          /\ SetManager(result.m)
          /\ user' = result.user
          /\ ret' = [op |-> "completeItem", error |-> "none"]
    /\ UNCHANGED <<achievements, skill, calls, savedUser, now>>

\* achievementManager.checkAchievements(user) with the loaded user
LoadCheck ==
    /\ user # NoUser
    /\ \E result \in {CheckLoaded(achievements, user, now)} :
          /\ achievements' = result.achievements
          /\ user' = result.user
          /\ ret' = [op |-> "checkAchievements", error |-> result.error,
                     newlyUnlocked |-> result.newlyUnlocked]
    /\ UNCHANGED <<skill, calls, sessions, objects, store, savedUser, now>>

LoadNext ==
    \/ LoadSavedUser
    \/ \E call \in LoadItemCalls : LoadCompleteItem(call[1], call[2])
    \/ LoadCheck

LoadSpec == LoadInit /\ [][LoadNext]_vars

-----------------------------------------------------------------------------
(* Failure level: the RoutineManager within one day over a LocalStorage     *)
(* whose reads and writes may fail, and the page reloaded.                  *)

\* completeItem calls made in all.
MaxFailureTasks == 2

\* The (routineId, itemId) pairs callers pass.
FailureItemCalls == {<<"evening", "e1">>, <<"morning", "m1">>}

\* routineManager.getSession(routineId)
FailureGetSession(routineId, readable) ==
    /\ \E got \in {GetSession(FailingStorage(Manager, readable), routineId,
                              NULL, now)} :
          /\ sessions' = got.m.sessions
          /\ objects' = got.m.objects
          /\ ret' = [op |-> "getSession", routineId |-> routineId,
                     ok |-> TRUE, readable |-> readable]
    /\ UNCHANGED <<achievements, skill, calls, user, store, savedUser, now>>

\* routineManager.completeItem(routineId, itemId, user)
FailureCompleteItem(routineId, itemId, ok, readable) ==
    /\ user.stats.totalTasksCompleted < MaxFailureTasks
    /\ \E result \in {ManagerCompleteItem(FailingStorage(Manager, readable),
                                          user, routineId, itemId, now, ok)} :
          /\ sessions' = result.m.sessions
          /\ objects' = result.m.objects
          /\ store' = Written(store, result.m.store, ok)
          /\ user' = result.user
          /\ ret' = [op |-> "completeItem", routineId |-> routineId,
                     itemId |-> itemId, ok |-> ok, readable |-> readable,
                     found |-> result.found]
    /\ UNCHANGED <<achievements, skill, calls, savedUser, now>>

\* routineManager.uncompleteItem(routineId, itemId)
FailureUncompleteItem(routineId, itemId, ok, readable) ==
    /\ \E result \in {ManagerUncompleteItem(FailingStorage(Manager, readable),
                                            routineId, itemId, now, ok)} :
          /\ sessions' = result.m.sessions
          /\ objects' = result.m.objects
          /\ store' = Written(store, result.m.store, ok)
          /\ ret' = [op |-> "uncompleteItem", routineId |-> routineId,
                     itemId |-> itemId, ok |-> ok, readable |-> readable,
                     found |-> result.found]
    /\ UNCHANGED <<achievements, skill, calls, user, savedUser, now>>

\* The page is reloaded: new RoutineManager(storageManager), its Map empty.
FailureRestart ==
    /\ sessions # << >>
    /\ sessions' = << >>
    /\ objects' = << >>
    /\ ret' = [op |-> "restart"]
    /\ UNCHANGED <<achievements, skill, calls, user, store, savedUser, now>>

FailureNext ==
    \/ \E routineId \in RoutineIds, readable \in BOOLEAN :
          FailureGetSession(routineId, readable)
    \/ \E call \in FailureItemCalls, ok \in BOOLEAN, readable \in BOOLEAN :
          FailureCompleteItem(call[1], call[2], ok, readable)
    \/ \E call \in FailureItemCalls, ok \in BOOLEAN, readable \in BOOLEAN :
          FailureUncompleteItem(call[1], call[2], ok, readable)
    \/ FailureRestart

FailureSpec == Init /\ [][FailureNext]_vars

-----------------------------------------------------------------------------
(* Daily level: a user who has completed the evening routine on each of the *)
(* past days goes on completing items through the RoutineManager and        *)
(* pressing prestige buttons, the page loaded anew (an empty session cache  *)
(* over the stored sessions).                                               *)

\* Clock ticks that pass after the start.
MaxDailyTicks == 2

\* completeItem calls made after the start.
MaxDailyTasks == 2

\* The (routineId, itemId) pairs callers pass.
DailyItemCalls ==
    {<<"evening", "e1">>, <<"morning", "m1">>, <<"morning", "m2">>}

\* The user and LocalStorage after n days on each of which the page was
\* loaded and completeItem('evening', 'e1', user) was called.
RECURSIVE Practised(_)
Practised(n) ==
    IF n = 0 THEN [user |-> NewUser(0), store |-> << >>]
    ELSE CHOOSE after \in
             {[user |-> result.user, store |-> result.m.store] :
                 result \in
                    {ManagerCompleteItem(
                         [sessions |-> << >>, objects |-> << >>,
                          store |-> before.store],
                         before.user, "evening", "e1",
                         (n - 1) * TicksPerDay, TRUE) :
                       before \in {Practised(n - 1)}}} : TRUE

DailyInit ==
    /\ \E start \in {Practised(PastDays)} :
          /\ user = start.user
          /\ store = start.store
    /\ now = PastDays * TicksPerDay
    /\ sessions = << >>
    /\ objects = << >>
    /\ achievements = NewAchievements
    /\ skill = NewSkill
    /\ calls = 0
    /\ savedUser = NoUser
    /\ ret = [op |-> "init"]

\* Time passes.
DailyTick ==
    /\ now < PastDays * TicksPerDay + MaxDailyTicks
    /\ now' = now + 1
    /\ ret' = [op |-> "tick"]
    /\ UNCHANGED <<achievements, skill, calls, user, sessions, objects, store,
                   savedUser>>

\* routineManager.completeItem(routineId, itemId, user)
DailyCompleteItem(routineId, itemId) ==
    /\ user.stats.totalTasksCompleted < PastDays + MaxDailyTasks
    /\ \E result \in {ManagerCompleteItem(Manager, user, routineId, itemId,
                                          now, TRUE)} :
          /\ SetManager(result.m)
          /\ user' = result.user
          /\ ret' = [op |-> "completeItem", routineId |-> routineId,
                     itemId |-> itemId, found |-> result.found,
                     xpResults |-> IF result.found THEN result.xpResults
                                   ELSE << >>]
    /\ UNCHANGED <<achievements, skill, calls, savedUser, now>>

\* routineManager.uncompleteItem(routineId, itemId)
DailyUncompleteItem(routineId, itemId) ==
    /\ \E result \in {ManagerUncompleteItem(Manager, routineId, itemId, now,
                                            TRUE)} :
          /\ SetManager(result.m)
          /\ ret' = [op |-> "uncompleteItem", routineId |-> routineId,
                     itemId |-> itemId, found |-> result.found]
    /\ UNCHANGED <<achievements, skill, calls, user, savedUser, now>>

DailyNext ==
    \/ DailyTick
    \/ \E call \in DailyItemCalls : DailyCompleteItem(call[1], call[2])
    \/ \E call \in DailyItemCalls : DailyUncompleteItem(call[1], call[2])
    \/ \E skillType \in PrestigeTypes : PrestigeSkill(skillType)

DailySpec == DailyInit /\ [][DailyNext]_vars

-----------------------------------------------------------------------------
(* Properties of Skill (SkillSpec)                                          *)

\* C1: after any sequence of addXP and prestige calls on a skill that
\* started freshly constructed, a skill below level 100 holds less currentXP
\* than the requirement of its level, floor(100 * level^1.5).  The
\* requirement is stated here by its defining inequalities
\* r^2 <= 10000 * level^3 < (r+1)^2 wherever 10000 * level^3 fits a 32-bit
\* integer (level <= 59), and by the table otherwise.
C1_CurrentXPBelowRequirement ==
    skill.level < 100 =>
        /\ skill.level >= 1
        /\ skill.currentXP < XPForNextLevel(skill.level)
        /\ skill.level <= 59 =>
              LET cube == skill.level * skill.level * skill.level
              IN  \A r \in 0..skill.currentXP :
                      (r * r <= 10000 * cube) /\ ((r + 1) * (r + 1) > 10000 * cube)
                          => skill.currentXP < r

\* C1 witness: an award that carried the skill over several levels and left
\* it below level 100 with XP in hand.
C1_Witness ==
    /\ ret.op = "addXP"
    /\ ret.leveledUp
    /\ skill.level > ret.before.level + 1
    /\ skill.level < 100
    /\ skill.currentXP > 0

\* C2 as stated: one addXP(1000) call with multiplier 1.0 on a level-1 skill
\* ends at level 5 or above.
C2_Original ==
    (ret.op = "addXP" /\ ret.before = NewSkill /\ ret.xp = 1000 /\ ret.bonus = 0)
        => skill.level >= 5

\* C2 amended: one addXP(1000) call with multiplier 1.0 on a level-1 skill
\* performs three level-ups in the one call (100 + 282 + 519 = 901 XP) and
\* ends at level 4 with 99 currentXP, short of the 800 needed for level 5.
C2_ThousandXPReachesLevelFour ==
    (ret.op = "addXP" /\ ret.before = NewSkill /\ ret.xp = 1000 /\ ret.bonus = 0)
        => /\ skill.level = 4
           /\ skill.currentXP = 99
           /\ skill.totalXP = 1000
           /\ ret.leveledUp
           /\ ret.newLevel = 4
           /\ ret.xpGained = 1000

\* C2 witness: the call of the example has just returned.
C2_Witness ==
    /\ ret.op = "addXP"
    /\ ret.before = NewSkill
    /\ ret.xp = 1000
    /\ ret.bonus = 0
    /\ skill.level > 1

\* floor(raw * (1 + 0.05 * prestige) * (1 + bonus)), the gain C3 names, from
\* its defining inequalities: g * 10000 <= raw * (100 + 5 * prestige) *
\* (100 + bonus) < (g + 1) * 10000, compared quotient and remainder apart.
C3_IsFloorOfProduct(g, raw, prestige, bonusPct) ==
    LET f  == (100 + 5 * prestige) * (100 + bonusPct)
        hi == (raw \div 10000) * f
        lo == (raw % 10000) * f
    IN  /\ g >= hi
        /\ (g - hi) * 10000 <= lo
        /\ lo < (g - hi + 1) * 10000

\* The requirements of the levels from..to-1 added up.
RECURSIVE C3_RequirementsPassed(_, _)
C3_RequirementsPassed(from, to) ==
    IF from >= to THEN 0
    ELSE (IF from < 100 THEN XPTable[from] ELSE 0)
             + C3_RequirementsPassed(from + 1, to)

C4_Original ==
    (ret.op = "prestige" /\ ret.before.level < 100)
        => /\ ret.error = "Must be level 100 to prestige"
           /\ skill = ret.before

\* C5 as stated: prestige() on a level-100 skill succeeds: level 1,
\* currentXP 0, prestige one higher, totalXP as before, and the new prestige
\* count and its multiplier handed back.
C5_Original ==
    (ret.op = "prestige" /\ ret.before.level = 100)
        => /\ ret.error = "none"
           /\ skill.level = 1
           /\ skill.currentXP = 0
           /\ skill.prestige = ret.before.prestige + 1
           /\ skill.totalXP = ret.before.totalXP
           /\ ret.prestigeLevel = skill.prestige
           /\ ret.multiplier = PrestigeMultiplier(skill.prestige)

\* C7 as stated: addXP on a level-100 skill leaves the level at 100 and
\* currentXP as it was.
C7_Original ==
    (ret.op = "addXP" /\ ret.before.level = 100)
        => /\ skill.level = 100
           /\ skill.currentXP = ret.before.currentXP

-----------------------------------------------------------------------------
(* Properties of the skills of a user (Spec)                                *)

\* C6: over every step (completeItem, uncompleteItem, session reset, a
\* direct XP award, prestige) no skill's totalXP or prestige decreases, and
\* a skill's prestige changes only by +1, only in a prestige step on that
\* skill, and only when the skill stood at level 100.
C6_TotalXPAndPrestigeMonotonic ==
    [][\A c \in Categories :
          /\ user'.skills[c].totalXP >= user.skills[c].totalXP
          /\ user'.skills[c].prestige >= user.skills[c].prestige
          /\ user'.skills[c].prestige # user.skills[c].prestige
                => /\ user'.skills[c].prestige = user.skills[c].prestige + 1
                   /\ user.skills[c].level = 100
                   /\ ret'.op = "prestige"
                   /\ ret'.skill = c]_vars

\* C6 witness: XP was earned, given up again by an uncompleteItem, and a
\* prestige step ran on a level-100 skill.
C6_Witness ==
    /\ ret.op = "prestige"
    /\ ret.skill = "discipline"
    /\ user.skills["discipline"].level = 100
    /\ user.skills["physical"].totalXP > 0
    /\ \E k \in DOMAIN objects :
           /\ ~Has(objects[k].completedItems, "m1")
           /\ objects[k].routineId = "morning"

-----------------------------------------------------------------------------
(* Properties of the streak bonus (BonusSpec)                               *)

\* The tiers C8 lists, as <<days, bonus percent>>.
C8_Tiers ==
    {<<5, 5>>, <<7, 10>>, <<15, 15>>, <<25, 20>>, <<50, 30>>, <<100, 50>>}

\* C8: getStreakBonus returns the bonus of the highest threshold that is at
\* most streak.current among 5 -> 0.05, 7 -> 0.10, 15 -> 0.15, 25 -> 0.20,
\* 50 -> 0.30, 100 -> 0.50, and 0 when streak.current is below 5; a streak
\* of 7 gives 0.10.
C8_HighestThresholdBonus ==
    ret.op = "getStreakBonus" =>
        LET current == user.streak.current
            met     == {tier \in C8_Tiers : tier[1] <= current}
        IN  /\ current < 5 => ret.bonus = 0
            /\ current >= 5 =>
                  \E tier \in met :
                      /\ \A other \in met : other[1] <= tier[1]
                      /\ ret.bonus = tier[2]
            /\ current = 7 => ret.bonus = 10

\* C8 witness: the bonus of a 7-day streak, which satisfies two tiers, has
\* been asked for.
C8_Witness ==
    /\ ret.op = "getStreakBonus"
    /\ user.streak.current = 7
    /\ ret.bonus = 10

-----------------------------------------------------------------------------
(* Properties of the streak (UserSpec)                                      *)

\* C9: a routine completion sets streak.current to 1 when there was no
\* earlier completion, adds one when the last completion was on the day
\* before, leaves it alone when the last completion was on the same day,
\* and resets it to 1 when the last completion was two or more days back;
\* every completion stamps streak.lastCompleted with the current time.
C9_StreakRules ==
    ret.op = "completeRoutine" =>
        LET b     == ret.before
            today == now \div TicksPerDay
            last  == b.lastCompleted \div TicksPerDay
        IN  /\ b.lastCompleted = NULL => user.streak.current = 1
            /\ (b.lastCompleted # NULL /\ last = today - 1)
                   => user.streak.current = b.current + 1
            /\ (b.lastCompleted # NULL /\ last = today)
                   => user.streak.current = b.current
            /\ (b.lastCompleted # NULL /\ last <= today - 2)
                   => user.streak.current = 1
            /\ user.streak.lastCompleted = now
            /\ ret.result = user.streak.current

\* C9 witness: a streak built over consecutive days and then kept by a
\* second completion on the same day.
C9_Witness ==
    /\ ret.op = "completeRoutine"
    /\ ret.before.lastCompleted # NULL
    /\ ret.before.lastCompleted \div TicksPerDay = now \div TicksPerDay
    /\ ret.before.current >= 3
    /\ user.streak.current = ret.before.current

\* C10: in every state streak.longest is at least streak.current, and
\* streak.longest never decreases from one step to the next.
C10_LongestStreak ==
    /\ [](user.streak.longest >= user.streak.current)
    /\ [][user'.streak.longest >= user.streak.longest]_vars

\* C10 witness: a gap has reset a streak of several days, so that longest
\* stands above current.
C10_Witness ==
    /\ ret.op = "completeRoutine"
    /\ ret.before.current >= 3
    /\ user.streak.current = 1
    /\ user.streak.longest >= 3

-----------------------------------------------------------------------------
(* Properties of routine completion through the manager (Spec)              *)

\* The sessions whose status changes to completed in the step.
C11_NewlyCompleted ==
    {k \in DOMAIN objects' :
        /\ objects'[k].status = "completed"
        /\ (k \in DOMAIN objects => objects[k].status # "completed")}

\* C11 as stated: user.completeRoutine runs exactly once per full-routine
\* completion: over every step the number of completeRoutine invocations
\* (the growth of stats.totalRoutinesCompleted) equals the number of
\* sessions whose status changed to completed in that step, so a
\* completeItem call that moves no session into completed invokes none.
C11_Original ==
    [][user'.stats.totalRoutinesCompleted - user.stats.totalRoutinesCompleted
          = Cardinality(C11_NewlyCompleted)]_vars

-----------------------------------------------------------------------------
(* Properties of RoutineSession (SessionSpec)                               *)

\* The session under test.
C12_Session == objects[SessionRef]

\* C12: RoutineSession.completeItem is idempotent: once completeItem has
\* been called with an item id, calling it again with the same id (at a
\* later time) leaves completedItems, xpEarned, status and startedAt as the
\* first call left them; a call made on a session that already holds the
\* item changed none of them.
C12_CompleteItemIdempotent ==
    ret.op = "completeItem" =>
        LET once  == C12_Session
            twice == SessionCompleteItem(once, ret.itemId,
                                         RewardsOf(ret.itemId), now + 1)
        IN  /\ Has(once.completedItems, ret.itemId)
            /\ twice.completedItems = once.completedItems
            /\ twice.xpEarned = once.xpEarned
            /\ twice.status = once.status
            /\ twice.startedAt = once.startedAt
            /\ Has(ret.before.completedItems, ret.itemId) =>
                  /\ once.completedItems = ret.before.completedItems
                  /\ once.xpEarned = ret.before.xpEarned
                  /\ once.status = ret.before.status
                  /\ once.startedAt = ret.before.startedAt

\* C12 witness: completeItem was called again, at a later time, for an item
\* with rewards that the session already held.
C12_Witness ==
    /\ ret.op = "completeItem"
    /\ ret.itemId = "m1"
    /\ Has(ret.before.completedItems, "m1")
    /\ C12_Session.xpEarned["physical"] = 150
    /\ C12_Session.startedAt < now

\* C13 as stated: for every session state and every item not yet completed,
\* completeItem(item, rewards) followed by uncompleteItem(item, same
\* rewards) gives back exactly the prior completedItems and xpEarned (same
\* categories, same amounts).
C13_Original ==
    \A itemId \in SessionItemIds :
        ~Has(C12_Session.completedItems, itemId) =>
            LET done   == SessionCompleteItem(C12_Session, itemId,
                                              RewardsOf(itemId), now)
                undone == SessionUncompleteItem(done, itemId, RewardsOf(itemId))
            IN  /\ undone.completedItems = C12_Session.completedItems
                /\ undone.xpEarned = C12_Session.xpEarned

\* C14 as stated: in every reachable session state xpEarned holds no
\* negative and no zero value.
C14_Original ==
    \A category \in DOMAIN C12_Session.xpEarned :
        C12_Session.xpEarned[category] > 0

\* C16: a session's status only moves forward along not_started ->
\* in_progress -> completed: completeItem moves not_started to in_progress
\* (stamping startedAt) on the first item, only complete() enters completed,
\* nothing but reset() leaves completed or returns to not_started, and
\* uncompleteItem never changes status.
C16_StatusMovesForward ==
    [][LET old == objects[SessionRef]
           new == objects'[SessionRef]
       IN  /\ new.status # old.status =>
                 \/ /\ old.status = "not_started"
                    /\ new.status = "in_progress"
                    /\ ret'.op = "completeItem"
                 \/ /\ old.status = "in_progress"
                    /\ new.status = "completed"
                    /\ ret'.op = "complete"
                 \/ /\ new.status = "not_started"
                    /\ ret'.op = "reset"
           /\ (ret'.op = "completeItem" /\ old.status = "not_started")
                 => /\ new.status = "in_progress"
                    /\ new.startedAt = now
           /\ ret'.op = "uncompleteItem" => new.status = old.status]_vars

\* C16 witness: uncompleteItem has emptied completedItems of a completed
\* session, whose status stays completed.
C16_Witness ==
    /\ ret.op = "uncompleteItem"
    /\ ret.before.completedItems # << >>
    /\ C12_Session.completedItems = << >>
    /\ C12_Session.status = "completed"

\* The ids of the items of a routine, section by section.
C17_ItemIds(routine) ==
    UNION {{routine.sections[i].items[j].id :
                j \in 1..Len(routine.sections[i].items)} :
           i \in 1..Len(routine.sections)}

\* C17: isComplete(routine) is true exactly when the number of completed
\* items equals the routine's total item count, whatever the order of
\* completion, and completeItem by itself never sets status to completed;
\* for the 3-item routine isComplete is false with two items completed and
\* true with the third.
C17_IsCompleteCountsItems ==
    LET done == {C12_Session.completedItems[i] :
                    i \in 1..Len(C12_Session.completedItems)}
    IN  /\ IsComplete(C12_Session, SessionRoutine)
               <=> Cardinality(done) = Cardinality(C17_ItemIds(SessionRoutine))
        /\ Cardinality(C17_ItemIds(SessionRoutine)) = 3
        /\ Cardinality(done) = 2 => ~IsComplete(C12_Session, SessionRoutine)
        /\ Cardinality(done) = 3 => IsComplete(C12_Session, SessionRoutine)
        /\ (ret.op = "completeItem" /\ C12_Session.status = "completed")
               => ret.before.status = "completed"

\* C17 witness: the third item has just been completed, in an order other
\* than the routine's, and the status is still in_progress.
C17_Witness ==
    /\ ret.op = "completeItem"
    /\ C12_Session.completedItems = <<"m3", "m1", "m2">>
    /\ IsComplete(C12_Session, SessionRoutine)
    /\ ~IsComplete(ret.before, SessionRoutine)
    /\ C12_Session.status = "in_progress"

-----------------------------------------------------------------------------
(* Properties of sessions driven through the manager (Spec)                 *)

\* The ids in a session's completedItems.
C15_Done(session) ==
    {session.completedItems[i] : i \in 1..Len(session.completedItems)}

C18_AllItemsDoneMeansCompleted ==
    /\ \A k \in DOMAIN objects :
          C17_ItemIds(Routines[objects[k].routineId]) \subseteq C15_Done(objects[k])
              => /\ objects[k].status = "completed"
                 /\ objects[k].completedAt # NULL
    /\ (ret.op = "completeItem" /\ ret.found /\ ret.isRoutineComplete)
          => \E k \in DOMAIN objects :
                /\ objects[k].status = "completed"
                /\ objects[k].completedAt # NULL
                /\ C15_Done(objects[k])
                      = C17_ItemIds(Routines[objects[k].routineId])

\* C18 witness: the third completeItem call has completed the morning
\* routine.
C18_Witness ==
    /\ ret.op = "completeItem"
    /\ ret.isRoutineComplete
    /\ \E k \in DOMAIN objects :
          /\ objects[k].routineId = "morning"
          /\ C15_Done(objects[k]) = {"m1", "m2", "m3"}
          /\ objects[k].status = "completed"

\* C19: RoutineManager.completeItem with an item id that is not in the
\* routine returns the not-found result and changes no skill, counter,
\* streak or other user field, no existing session, no stored session and
\* no stored user; a session that getSession creates on the way is a fresh
\* one (nothing completed, no XP, not_started).
C19_UnknownItemMutatesNothing ==
    [][(ret'.op = "completeItem" /\ ~ret'.found)
          => /\ user' = user
             /\ store' = store
             /\ savedUser' = savedUser
             /\ \A k \in DOMAIN objects :
                   /\ k \in DOMAIN objects'
                   /\ objects'[k] = objects[k]
             /\ \A k \in DOMAIN objects' \ DOMAIN objects :
                   /\ objects'[k].completedItems = << >>
                   /\ objects'[k].xpEarned = << >>
                   /\ objects'[k].status = "not_started"]_vars

\* C19 witness: an unknown item id was passed after a task had been
\* completed, XP earned and a session stored.
C19_Witness ==
    /\ ret.op = "completeItem"
    /\ ~ret.found
    /\ user.stats.totalTasksCompleted > 0
    /\ user.stats.totalXPEarned > 0
    /\ DOMAIN store # {}

-----------------------------------------------------------------------------
(* Properties of XP awards to a user (RewardSpec)                           *)

\* The entries of a skillRewards object whose category the user has.
C20_Known(skillRewards) ==
    SelectSeq(skillRewards, LAMBDA entry : entry[1] \in Categories)

\* C20: User.addSkillXP with a category that is not one of the user's skill
\* categories returns null and leaves every skill, stats.totalXPEarned and
\* lastActive (the whole user) unchanged; addRoutineRewards leaves that
\* category out of its result list and still applies the other categories,
\* in order.
C20_UnknownCategoryIgnored ==
    /\ (ret.op = "addSkillXP" /\ ret.skillType \notin Categories)
          => /\ ~ret.found
             /\ user = ret.before
    /\ (ret.op = "addSkillXP" /\ ret.skillType \in Categories) => ret.found
    /\ ret.op = "addRoutineRewards" =>
          LET known == C20_Known(ret.skillRewards)
          IN  /\ Len(ret.results) = Len(known)
              /\ \A i \in 1..Len(known) :
                    /\ ret.results[i].skill = known[i][1]
                    /\ ret.results[i].xpGained = known[i][2]
                    /\ user.skills[known[i][1]].totalXP
                           = ret.before.skills[known[i][1]].totalXP + known[i][2]
              /\ DOMAIN user.skills = Categories
              /\ known = << >> => user = ret.before

\* C20 witness: a reward object naming the unknown category first was
\* applied, later than the user's last activity, and the categories after
\* it were awarded.
C20_Witness ==
    /\ ret.op = "addRoutineRewards"
    /\ ret.skillRewards[1][1] = "focus"
    /\ Len(ret.results) = 2
    /\ ret.before.lastActive < now
    /\ user.skills["mental"].totalXP = 1000

-----------------------------------------------------------------------------
(* Properties of the results and effects of manager calls (Spec)            *)

\* C21: RoutineManager.uncompleteItem changes only the session's
\* completedItems and xpEarned: the call leaves the user (every skill's
\* level, currentXP, totalXP and prestige, the stats counters, the streak
\* record and the unlocked achievements) and the stored user unchanged, and
\* leaves the routineId, date, startedAt, completedAt and status of every
\* session as they were.
C21_UncompleteLeavesUserAlone ==
    [][ret'.op = "uncompleteItem"
          => /\ user' = user
             /\ savedUser' = savedUser
             /\ \A k \in DOMAIN objects :
                   /\ k \in DOMAIN objects'
                   /\ objects'[k].routineId = objects[k].routineId
                   /\ objects'[k].date = objects[k].date
                   /\ objects'[k].startedAt = objects[k].startedAt
                   /\ objects'[k].completedAt = objects[k].completedAt
                   /\ objects'[k].status = objects[k].status]_vars

\* C21 witness: uncompleteItem has taken the only item out of a completed
\* evening session after the user had earned XP, a task and a routine.
C21_Witness ==
    /\ ret.op = "uncompleteItem"
    /\ ret.found
    /\ user.stats.totalXPEarned > 0
    /\ user.stats.totalRoutinesCompleted > 0
    /\ \E k \in DOMAIN objects :
          /\ objects[k].routineId = "evening"
          /\ objects[k].status = "completed"
          /\ objects[k].completedItems = << >>

\* C22 as stated: the isRoutineComplete flag returned by
\* RoutineManager.completeItem is true exactly when that call made the
\* routine become complete (a session's status changed to completed during
\* the call), and false for every other call.
C22_Original ==
    [][ret'.op = "completeItem"
          => (ret'.isRoutineComplete <=> C11_NewlyCompleted # {})]_vars

-----------------------------------------------------------------------------
(* Properties of session retrieval and persistence over days (HistorySpec)  *)

\* The session object getSession(routineId, date) returns from manager m.
C23_Returned(m, routineId, date, t) == GetSession(m, routineId, date, t).ref

\* C23 as stated: within one process getSession is idempotent per
\* (routineId, calendar day): whatever the manager does in between, a call
\* for a pair that was cached returns the same session object as before,
\* whether the day is given by any of its instants or defaulted to today,
\* and calls for a different routine or a different day return a different
\* session object.
C23_Original ==
    [][ret'.op # "restart"
          => /\ \A routineId \in RoutineIds, date \in 0..now :
                   <<routineId, Day(date)>> \in DOMAIN sessions
                       => /\ C23_Returned(Manager', routineId, date, now')
                                = sessions[<<routineId, Day(date)>>]
                          /\ Day(date) = Day(now')
                                => C23_Returned(Manager', routineId, NULL, now')
                                       = sessions[<<routineId, Day(date)>>]
             /\ \A k1, k2 \in DOMAIN sessions' :
                   k1 # k2 => sessions'[k1] # sessions'[k2]]_vars

\* C24 as stated: after a session for (routine, d), d today or a past day,
\* has been saved through RoutineManager (completeItem, uncompleteItem or
\* resetSession on that day's session), a process with an empty session
\* cache that requests (routine, d) reconstructs a session with identical
\* date, status, startedAt, completedAt, completedItems and xpEarned.
C24_Original ==
    (ret.op \in {"completeItem", "uncompleteItem", "resetSession"} /\ ret.found)
        => LET saved  == objects[sessions[<<ret.routineId, DayOf(ret.date, now)>>]]
               empty  == [sessions |-> << >>, objects |-> << >>, store |-> store]
               got    == GetSession(empty, ret.routineId, ret.date, now)
               loaded == got.m.objects[got.ref]
           IN  /\ loaded.date = saved.date
               /\ loaded.status = saved.status
               /\ loaded.startedAt = saved.startedAt
               /\ loaded.completedAt = saved.completedAt
               /\ loaded.completedItems = saved.completedItems
               /\ loaded.xpEarned = saved.xpEarned

-----------------------------------------------------------------------------
(* Properties of achievement unlocking (AchievementSpec)                    *)

\* C25: achievement unlocking is one-shot: over checkAchievements and
\* restoreUnlocked calls interleaved with user mutations, an unlockedAt that
\* is set is never cleared or changed by any step, and every id that
\* checkAchievements returns as newly unlocked was locked before the call
\* and is unlocked after it, so that no id is returned a second time.
C25_UnlockIsOneShot ==
    [][/\ \A id \in AchievementIds :
             IsUnlocked(achievements[id]) => achievements'[id] = achievements[id]
       /\ ret'.op = "checkAchievements" =>
             \A i \in 1..Len(ret'.newlyUnlocked) :
                /\ ~IsUnlocked(achievements[ret'.newlyUnlocked[i]])
                /\ IsUnlocked(achievements'[ret'.newlyUnlocked[i]])]_vars

\* C25 witness: restoreUnlocked was called with the user's list on a later
\* day than an achievement of that list was unlocked by checkAchievements,
\* and another achievement of the list got its stamp from this call.
C25_Witness ==
    /\ ret.op = "restoreUnlocked"
    /\ Has(ret.unlockedIds, "streak-5")
    /\ achievements["streak-5"] < now
    /\ Day(achievements["streak-5"]) >= PastDays
    /\ Has(ret.unlockedIds, "first-task")
    /\ achievements["first-task"] = now

\* The achievements checkAchievements has to return in the step: locked
\* before the call, the condition true of the user as the call finds it.
C26_Due ==
    SelectSeq(ACHIEVEMENTS,
              LAMBDA a : ~IsUnlocked(achievements[a.id]) /\ Condition(a, user))

\* The ids of a sequence of catalog entries.
C26_Ids(entries) == [i \in 1..Len(entries) |-> entries[i].id]

\* C26: checkAchievements(user) returns exactly the achievements that were
\* locked before the call and whose predicate holds on the user's current
\* state, in catalog order; each of them gets unlockedAt stamped (the time
\* of the call) and its id is in user.stats.achievements afterwards; every
\* other achievement and the rest of the user are left as they were, and a
\* second call made at once would return the empty list.
C26_CheckReturnsDue ==
    [][ret'.op = "checkAchievements" =>
          \E due \in {C26_Ids(C26_Due)} :
             /\ ret'.newlyUnlocked = due
             /\ \A i \in 1..Len(due) :
                   /\ achievements'[due[i]] = now
                   /\ Has(user'.stats.achievements, due[i])
             /\ \A id \in AchievementIds :
                   IF IsUnlocked(achievements[id]) \/ ~Has(due, id)
                       THEN achievements'[id] = achievements[id]
                       ELSE IsUnlocked(achievements'[id])
             /\ [user' EXCEPT !.stats.achievements = << >>]
                   = [user EXCEPT !.stats.achievements = << >>]
             /\ CheckAchievements(achievements', user', now').newlyUnlocked
                   = << >>]_vars

\* C26 witness: one call returned the level and XP achievements a single
\* award had made due, in catalog order, and skipped an achievement that
\* was unlocked on an earlier day and whose condition still holds.
C26_Witness ==
    /\ ret.op = "checkAchievements"
    /\ ret.newlyUnlocked =
          <<"skill-level-10", "skill-level-25", "skill-level-50",
            "skill-level-75", "skill-level-100", "xp-1000", "xp-10000",
            "xp-50000">>
    /\ achievements["first-routine"] < now
    /\ user.stats.totalRoutinesCompleted >= 1

\* C27 as stated: every threshold predicate of the achievement catalog is
\* monotonic over a user's lifetime: once it evaluates to true it stays true
\* after every later operation (routine completions on any later day, XP
\* awards, prestige), the streak-threshold and skill-level-threshold
\* predicates included.
C27_Original ==
    [][\A i \in 1..Len(ACHIEVEMENTS) :
          Condition(ACHIEVEMENTS[i], user) => Condition(ACHIEVEMENTS[i], user')]_vars

\* The ids user.stats.achievements holds.
C28_Ids(u) == {u.stats.achievements[i] : i \in 1..Len(u.stats.achievements)}

\* C28: user.stats.achievements behaves as a grow-only set:
\* unlockAchievement(id) returns true and adds the id iff it was absent,
\* returns false and changes nothing when it is present; no step loses an
\* id and no reachable state holds an id twice.
C28_GrowOnlySet ==
    [][/\ C28_Ids(user) \subseteq C28_Ids(user')
       /\ Cardinality(C28_Ids(user')) = Len(user'.stats.achievements)
       /\ ret'.op = "unlockAchievement" =>
             /\ ret'.added <=> ret'.id \notin C28_Ids(user)
             /\ ret'.added =>
                   user' = [user EXCEPT !.stats.achievements = Append(@, ret'.id)]
             /\ ~ret'.added => user' = user]_vars

\* C28 witness: unlockAchievement was called with an id the user held
\* already next to other ids, and returned false.
C28_Witness ==
    /\ ret.op = "unlockAchievement"
    /\ ~ret.added
    /\ Has(user.stats.achievements, ret.id)
    /\ Len(user.stats.achievements) >= 3

-----------------------------------------------------------------------------
(* Properties of loading persisted snapshots (LoadSpec)                     *)

\* C29 as stated: User.fromJSON and RoutineSession.fromJSON tolerate a
\* snapshot with any subset of fields missing (skills, streak, stats,
\* stats.achievements, status, completedItems, xpEarned): loading never
\* fails, each missing field has its default afterwards (an absent streak
\* becomes current 0, longest 0, lastCompleted null), and the loaded user
\* goes through completeItem and checkAchievements without error.
C29_Original ==
    /\ ret.op \in {"loadUser", "completeItem", "checkAchievements"}
          => ret.error = "none"
    /\ ret.op = "loadUser" =>
          /\ user # NoUser
          /\ "skills" \notin DOMAIN savedUser
                => user.skills = [c \in Categories |-> NewSkill]
          /\ "streak" \notin DOMAIN savedUser
                => user.streak = [current |-> 0, longest |-> 0,
                                  lastCompleted |-> NULL]
          /\ "stats" \notin DOMAIN savedUser
                => user.stats = [totalRoutinesCompleted |-> 0,
                                 totalTasksCompleted |-> 0,
                                 totalXPEarned |-> 0, achievements |-> << >>]
          /\ "stats" \in DOMAIN savedUser
                => /\ "achievements" \in DOMAIN user.stats
                   /\ "achievements" \notin DOMAIN savedUser.stats
                         => user.stats.achievements = << >>
    /\ \A k \in DOMAIN store :
          LET session == SessionFromJSON(store[k], Routines[k[1]], now)
          IN  /\ "status" \notin DOMAIN store[k] => session.status = "not_started"
              /\ "completedItems" \notin DOMAIN store[k]
                    => session.completedItems = << >>
              /\ "xpEarned" \notin DOMAIN store[k] => session.xpEarned = << >>

-----------------------------------------------------------------------------
(* Properties of the manager over failing storage (FailureSpec)             *)

\* C30: a storage failure never breaks the core: when the save or the load
\* of a session fails during completeItem, uncompleteItem or getSession,
\* the call returns as it does over working storage, the in-memory session
\* and the user carry the full effect of the operation (they are what the
\* same call leaves when the write succeeds), a failed write leaves
\* LocalStorage as it was, and later calls for the same routine and day get
\* that same in-memory session whether storage can be read or not.
C30_StorageFailureHarmless ==
    [][(/\ ret'.op \in {"completeItem", "uncompleteItem", "getSession"}
        /\ ~ret'.ok \/ ~ret'.readable)
          => LET key  == <<ret'.routineId, Day(now)>>
                 view == FailingStorage(Manager, ret'.readable)
             IN  /\ key \in DOMAIN sessions'
                 /\ \A readable \in BOOLEAN :
                       GetSession(FailingStorage(Manager', readable),
                                  ret'.routineId, NULL, now').ref = sessions'[key]
                 /\ ~ret'.ok => store' = store
                 /\ ret'.op = "completeItem" =>
                       LET good == ManagerCompleteItem(view, user, ret'.routineId,
                                                       ret'.itemId, now, TRUE)
                       IN  /\ ret'.found = good.found
                           /\ user' = good.user
                           /\ sessions' = good.m.sessions
                           /\ objects' = good.m.objects
                           /\ ret'.found =>
                                 Has(objects'[sessions'[key]].completedItems,
                                     ret'.itemId)
                 /\ ret'.op = "uncompleteItem" =>
                       LET good == ManagerUncompleteItem(view, ret'.routineId,
                                                         ret'.itemId, now, TRUE)
                       IN  /\ ret'.found = good.found
                           /\ user' = user
                           /\ sessions' = good.m.sessions
                           /\ objects' = good.m.objects
                           /\ ~Has(objects'[sessions'[key]].completedItems,
                                   ret'.itemId)]_vars

\* C30 witness: a completeItem call whose write failed has completed the
\* evening routine in memory, rewarded the user and counted the routine,
\* while LocalStorage still holds the session without the item.
C30_Witness ==
    /\ ret.op = "completeItem"
    /\ ~ret.ok
    /\ ret.routineId = "evening"
    /\ objects[sessions[<<"evening", Day(now)>>]].status = "completed"
    /\ user.stats.totalRoutinesCompleted >= 1
    /\ user.skills["discipline"].totalXP > 0
    /\ <<"evening", Day(now)>> \in DOMAIN store
    /\ store[<<"evening", Day(now)>>].completedItems = << >>

-----------------------------------------------------------------------------
(* Properties of awards under a streak (DailySpec)                          *)

\* C31: RoutineManager.completeItem awards the item's XP before it updates
\* the streak: every entry of the returned xpResults carries the bonus of
\* the streak the user held before the call, the XP gained is computed with
\* that bonus and is what the skill's totalXP grows by, also in the call
\* that completes a routine and so raises the streak; the streak the call
\* leaves is the one the next call awards under.
C31_AwardBeforeStreak ==
    [][(ret'.op = "completeItem" /\ ret'.found)
          => LET bonus   == GetStreakBonus(user.streak.current)
                 rewards == C20_Known(GetItem(Routines[ret'.routineId],
                                              ret'.itemId).skillRewards)
             IN  /\ Len(ret'.xpResults) = Len(rewards)
                 /\ \A i \in 1..Len(rewards) :
                       LET c == rewards[i][1]
                       IN  /\ ret'.xpResults[i].skill = c
                           /\ ret'.xpResults[i].streakBonus = bonus
                           /\ C3_IsFloorOfProduct(ret'.xpResults[i].xpGained,
                                                  rewards[i][2],
                                                  user.skills[c].prestige, bonus)
                           /\ user'.skills[c].totalXP
                                 = user.skills[c].totalXP
                                      + ret'.xpResults[i].xpGained]_vars

\* C31 witness: the call that completed the evening routine raised the
\* streak to the first bonus tier and awarded its own XP without the bonus.
C31_Witness ==
    /\ ret.op = "completeItem"
    /\ ret.routineId = "evening"
    /\ ret.found
    /\ ret.xpResults[1].streakBonus = 0
    /\ ret.xpResults[1].xpGained = 150
    /\ user.streak.current = 5
    /\ GetStreakBonus(user.streak.current) = 5

-----------------------------------------------------------------------------
(* Properties of reward maps (RewardSpec)                                   *)

\* The iteration orders of the entries of a reward map.
C32_Orders(skillRewards) ==
    LET n == Len(skillRewards)
    IN  {[i \in 1..n |-> skillRewards[p[i]]] :
            p \in {f \in [1..n -> 1..n] : \A i, j \in 1..n : f[i] = f[j] => i = j}}

\* C32: for a reward map over the skill categories, the user after
\* addRoutineRewards is the same for every iteration order of the map's
\* entries (each known category's skill is what awarding that entry alone
\* makes it), and the returned list has one entry per known category, in
\* the iteration order of the map.
C32_OrderIndependent ==
    ret.op = "addRoutineRewards" =>
        /\ \A order \in C32_Orders(ret.skillRewards) :
              LET other == AddRoutineRewards(ret.before, order, now)
                  known == C20_Known(order)
              IN  /\ other.user = user
                  /\ Len(other.results) = Len(known)
                  /\ \A i \in 1..Len(known) :
                        other.results[i].skill = known[i][1]
        /\ LET known == C20_Known(ret.skillRewards)
           IN  /\ Len(ret.results) = Len(known)
               /\ \A i \in 1..Len(known) :
                     LET alone == AddSkillXP(ret.before, known[i][1],
                                             known[i][2], now)
                     IN  /\ ret.results[i].skill = known[i][1]
                         /\ ret.results[i].xpGained = alone.xpGained
                         /\ ret.results[i].newLevel = alone.newLevel
                         /\ user.skills[known[i][1]]
                               = alone.user.skills[known[i][1]]

\* C32 witness: a map of three entries was applied whose two known
\* categories both levelled up, physical first.
C32_Witness ==
    /\ ret.op = "addRoutineRewards"
    /\ Len(ret.skillRewards) = 3
    /\ Len(ret.results) = 2
    /\ ret.results[1].skill = "physical"
    /\ ret.results[1].leveledUp
    /\ ret.results[2].skill = "mental"
    /\ ret.results[2].leveledUp

-----------------------------------------------------------------------------
(* Properties of snapshots of reachable objects (Spec)                      *)

\* C33: snapshots round-trip exactly: for the user of every reachable
\* state, User.fromJSON(user.toJSON()) succeeds and has the same username,
\* createdAt, lastActive, per-skill level, currentXP, totalXP and prestige,
\* streak and stats; for every session of the manager,
\* RoutineSession.fromJSON(session.toJSON(), routine) has the same
\* routineId, date, startedAt, completedAt, status, completedItems and
\* xpEarned, at whatever time the snapshot is loaded.
C33_RoundTrip ==
    \A t \in {now, now + TicksPerDay} :
        /\ LET loaded == UserFromJSON(UserToJSON(user), t)
           IN  /\ loaded.error = "none"
               /\ loaded.user.username = user.username
               /\ loaded.user.createdAt = user.createdAt
               /\ loaded.user.lastActive = user.lastActive
               /\ DOMAIN loaded.user.skills = DOMAIN user.skills
               /\ \A c \in DOMAIN user.skills :
                     /\ loaded.user.skills[c].level = user.skills[c].level
                     /\ loaded.user.skills[c].currentXP = user.skills[c].currentXP
                     /\ loaded.user.skills[c].totalXP = user.skills[c].totalXP
                     /\ loaded.user.skills[c].prestige = user.skills[c].prestige
               /\ loaded.user.streak = user.streak
               /\ loaded.user.stats = user.stats
        /\ \A k \in DOMAIN objects :
              LET session == objects[k]
                  loaded  == SessionFromJSON(SessionToJSON(session),
                                             Routines[session.routineId], t)
              IN  /\ loaded.routineId = session.routineId
                  /\ loaded.date = session.date
                  /\ loaded.startedAt = session.startedAt
                  /\ loaded.completedAt = session.completedAt
                  /\ loaded.status = session.status
                  /\ loaded.completedItems = session.completedItems
                  /\ loaded.xpEarned = session.xpEarned

\* C33 witness: a user with a levelled skill, a streak and counted tasks,
\* and a completed morning session holding three items and earned XP, whose
\* snapshots differ from those of a new user and a new session.
C33_Witness ==
    /\ user.skills["mental"].level > 1
    /\ user.skills["mental"].currentXP > 0
    /\ user.streak.current = 1
    /\ user.stats.totalTasksCompleted = 3
    /\ UserToJSON(user) # UserToJSON(NewUser(now))
    /\ \E k \in DOMAIN objects :
          /\ objects[k].status = "completed"
          /\ Len(objects[k].completedItems) = 3
          /\ objects[k].xpEarned # << >>
          /\ objects[k].completedAt # NULL
          /\ SessionFromJSON(SessionToJSON(objects[k]),
                             Routines[objects[k].routineId], now)
                # NewSession(objects[k].routineId, NULL, now)

\* C34: RoutineManager.resetSession resets the session of the routine for
\* today, whatever state it was in: afterwards its status is not_started,
\* completedItems and xpEarned are empty, startedAt and completedAt are
\* null, and its routineId and date are as before; every other session is
\* left alone and no user state (skills, stats, streak, achievements, the
\* stored user, the unlocked achievements) changes.
C34_ResetClearsSessionOnly ==
    [][ret'.op = "resetSession"
          => /\ user' = user
             /\ savedUser' = savedUser
             /\ achievements' = achievements
             /\ \E routineId \in RoutineIds :
                   LET k == <<routineId, Day(now)>>
                   IN  /\ k \in DOMAIN objects'
                       /\ objects'[k].status = "not_started"
                       /\ objects'[k].completedItems = << >>
                       /\ objects'[k].xpEarned = << >>
                       /\ objects'[k].startedAt = NULL
                       /\ objects'[k].completedAt = NULL
                       /\ objects'[k].routineId = routineId
                       /\ k \in DOMAIN objects
                             => /\ objects'[k].routineId = objects[k].routineId
                                /\ objects'[k].date = objects[k].date
                       /\ \A other \in DOMAIN objects \ {k} :
                             objects'[other] = objects[other]]_vars

\* C34 witness: resetSession has cleared the one session that had been
\* completed, after the user had earned XP, tasks and a routine from it.
C34_Witness ==
    /\ ret.op = "resetSession"
    /\ user.stats.totalRoutinesCompleted = 1
    /\ user.stats.totalTasksCompleted = 3
    /\ user.stats.totalXPEarned > 0
    /\ user.streak.current = 1
    /\ \E k \in DOMAIN objects : objects[k].routineId = "morning"
    /\ \A k \in DOMAIN objects :
          /\ objects[k].status = "not_started"
          /\ objects[k].completedItems = << >>

-----------------------------------------------------------------------------
(* Properties of repeated completion (DailySpec)                            *)

\* C35 as stated: toggling is idempotent at the RoutineManager level: a
\* RoutineManager.completeItem call for an item that is already in the
\* completedItems of the session the call works on changes no user state:
\* no skill gains XP, and totalXPEarned, totalTasksCompleted and
\* totalRoutinesCompleted do not increase.
C35_Original ==
    [][(/\ ret'.op = "completeItem"
        /\ ret'.found
        /\ LET got == GetSession(Manager, ret'.routineId, NULL, now)
           IN  Has(got.m.objects[got.ref].completedItems, ret'.itemId))
          => /\ user'.skills = user.skills
             /\ user'.stats.totalXPEarned = user.stats.totalXPEarned
             /\ user'.stats.totalTasksCompleted = user.stats.totalTasksCompleted
             /\ user'.stats.totalRoutinesCompleted
                   = user.stats.totalRoutinesCompleted]_vars

\* The totalXP of the skills `cats' of a user added up.
RECURSIVE C36_TotalXP(_, _)
C36_TotalXP(skills, cats) ==
    IF cats = {} THEN 0
    ELSE LET c == CHOOSE x \in cats : TRUE
         IN  skills[c].totalXP + C36_TotalXP(skills, cats \ {c})

\* C36: in every state reachable from a newly created user through
\* RoutineManager operations and prestige requests, stats.totalXPEarned
\* equals the sum of totalXP over the user's six skills.
C36_EarnedIsSumOfTotals ==
    /\ DOMAIN user.skills = Categories
    /\ user.stats.totalXPEarned = C36_TotalXP(user.skills, Categories)

\* C36 witness: the user has earned XP in two skills, part of it under a
\* streak bonus (157 for a reward of 150).
C36_Witness ==
    /\ user.skills["physical"].totalXP = 157
    /\ user.skills["discipline"].totalXP = 750
    /\ user.stats.totalXPEarned = 907
    /\ user.streak.current = 5

-----------------------------------------------------------------------------
(* Properties of the loaded achievement state (LoadSpec)                    *)

\* The manager and the user agree on the achievements of the catalog.
C37_Agree(ach, u) ==
    \A id \in AchievementIds :
        IsUnlocked(ach[id]) <=> Has(u.stats.achievements, id)

\* C37: the achievement manager and the user stay in agreement: from a new
\* user with a new manager, or from a loaded user after
\* restoreUnlocked(user.stats.achievements), every step leaves a state in
\* which an achievement of the catalog is unlocked in the manager iff its
\* id is in user.stats.achievements, and checkAchievements reports no id
\* the user held before the call, so that an achievement restored from a
\* snapshot is not reported as newly unlocked again.
C37_ManagerAgreesWithUser ==
    [][(user' # NoUser /\ "achievements" \in DOMAIN user'.stats)
          => /\ C37_Agree(achievements', user')
             /\ ret'.op = "checkAchievements" =>
                   \A i \in 1..Len(ret'.newlyUnlocked) :
                      ~Has(user.stats.achievements, ret'.newlyUnlocked[i])]_vars

\* C37 witness: the user was loaded from a snapshot holding first-routine,
\* completed the evening routine, and checkAchievements reported the
\* streak achievement that became due, not the restored one.
C37_Witness ==
    /\ ret.op = "checkAchievements"
    /\ Has(ret.newlyUnlocked, "streak-5")
    /\ ~Has(ret.newlyUnlocked, "first-routine")
    /\ user.stats.achievements[1] = "first-routine"
    /\ IsUnlocked(achievements["first-routine"])
    /\ "skills" \in DOMAIN savedUser
    /\ Has(savedUser.stats.achievements, "first-routine")
    /\ ~Has(savedUser.stats.achievements, "streak-5")

-----------------------------------------------------------------------------
(* Properties of the sessions of the manager (Spec)                         *)

\* C38: in every state of a session reached through RoutineManager
\* operations from a fresh session, startedAt is null iff the status is
\* not_started, and completedAt is non-null iff the status is completed.
C38_StampsMatchStatus ==
    \A k \in DOMAIN objects :
        /\ objects[k].status \in {"not_started", "in_progress", "completed"}
        /\ objects[k].startedAt = NULL <=> objects[k].status = "not_started"
        /\ objects[k].completedAt # NULL <=> objects[k].status = "completed"

\* C38 witness: the manager holds a completed session with both stamps and a
\* session in progress with startedAt only.
C38_Witness ==
    /\ ret.op = "completeItem"
    /\ \E k1, k2 \in DOMAIN objects :
          /\ objects[k1].status = "completed"
          /\ objects[k1].startedAt # NULL
          /\ objects[k1].completedAt # NULL
          /\ objects[k2].status = "in_progress"
          /\ objects[k2].startedAt # NULL
          /\ objects[k2].completedAt = NULL

\* The raw reward of category c that the item itemId of a routine carries.
C39_Reward(routine, itemId, c) ==
    LET rewards == GetItem(routine, itemId).skillRewards
        hits    == {i \in 1..Len(rewards) : rewards[i][1] = c}
    IN  IF hits = {} THEN 0 ELSE rewards[CHOOSE i \in hits : TRUE][2]

\* The raw rewards of category c over a sequence of item ids, added up.
RECURSIVE C39_Sum(_, _, _)
C39_Sum(routine, items, c) ==
    IF items = << >> THEN 0
    ELSE C39_Reward(routine, Head(items), c) + C39_Sum(routine, Tail(items), c)

\* The categories any item of a routine rewards.
C39_Rewarded(routine) ==
    UNION {{GetAllItems(routine)[i].skillRewards[j][1] :
               j \in 1..Len(GetAllItems(routine)[i].skillRewards)} :
           i \in 1..Len(GetAllItems(routine))}

\* C39: in every state of a session reached through RoutineManager
\* operations (rewards non-negative), completedItems holds item ids of the
\* routine only, each once, and for every category xpEarned[category]
\* (0 when absent) equals the sum of the raw reward amounts for that
\* category over the items currently in completedItems.
C39_EarnedIsSumOverCompleted ==
    \A k \in DOMAIN objects :
        LET session == objects[k]
            routine == Routines[session.routineId]
        IN  /\ C15_Done(session) \subseteq C17_ItemIds(routine)
            /\ Cardinality(C15_Done(session)) = Len(session.completedItems)
            /\ \A c \in Categories \cup C39_Rewarded(routine)
                           \cup DOMAIN session.xpEarned :
                  Earned(session.xpEarned, c)
                      = C39_Sum(routine, session.completedItems, c)

\* C39 witness: m1 and m2 were completed and m1 taken back: the morning
\* session holds m2 alone, with its 1000 mental XP and no physical XP left.
C39_Witness ==
    /\ ret.op = "uncompleteItem"
    /\ ret.found
    /\ \E k \in DOMAIN objects :
          /\ objects[k].completedItems = <<"m2">>
          /\ Earned(objects[k].xpEarned, "mental") = 1000
          /\ Earned(objects[k].xpEarned, "physical") = 0
          /\ user.skills["physical"].totalXP = 150

-----------------------------------------------------------------------------
(* Properties of the stored sessions over days (HistorySpec)                *)

\* C40 as stated: persisting the session of one (routine, day) leaves the
\* persisted sessions of every other (routine, day) pair unchanged: a
\* completeItem, uncompleteItem or resetSession call that saves the session
\* of a routine for a day changes the stored session of no other pair, so
\* that saving a past day's session never overwrites the stored session of
\* today for the same routine.
C40_Original ==
    [][ret'.op \in {"completeItem", "uncompleteItem", "resetSession"}
          => \A k \in DOMAIN store :
                k # <<ret'.routineId, DayOf(ret'.date, now)>>
                    => /\ k \in DOMAIN store'
                       /\ store'[k] = store[k]]_vars
=============================================================================
